---------------------------- MODULE Spec2Model ----------------------------
(***************************************************************************)
(* Model of the WhatsApp transaction bot: the conversation engine (Bot),   *)
(* the module-level session map of state.ts, the RateLimiter, the          *)
(* SessionManager and the messages.upsert handler of index.ts.             *)
(*                                                                         *)
(* Text is a sequence of one-character strings, so that trim, toLowerCase, *)
(* parseInt and the regular expressions of the parser are computed and not *)
(* assumed.  Money is counted in cents (25.50 is 2550): the parser accepts *)
(* at most two decimals, so cents are exact.                               *)
(***************************************************************************)
EXTENDS Integers, Sequences, FiniteSets, TLC

-----------------------------------------------------------------------------
(* Characters and strings (JavaScript String methods)                      *)

UpperChars == <<"A","B","C","D","E","F","G","H","I","J","K","L","M",
                "N","O","P","Q","R","S","T","U","V","W","X","Y","Z">>
LowerChars == <<"a","b","c","d","e","f","g","h","i","j","k","l","m",
                "n","o","p","q","r","s","t","u","v","w","x","y","z">>
DigitChars == <<"0","1","2","3","4","5","6","7","8","9">>

IsSpace(c) == c \in {" ", "\t", "\n"}
IsDigit(c) == \E i \in 1..10 : DigitChars[i] = c
DigitVal(c) == (CHOOSE i \in 1..10 : DigitChars[i] = c) - 1

LowerChar(c) ==
  IF \E i \in 1..26 : UpperChars[i] = c
  THEN LowerChars[CHOOSE i \in 1..26 : UpperChars[i] = c]
  ELSE c

\* String.prototype.toLowerCase
ToLowerCase(s) == [i \in 1..Len(s) |-> LowerChar(s[i])]

TrimStart(s) ==
  IF \A i \in 1..Len(s) : IsSpace(s[i]) THEN <<>>
  ELSE SubSeq(s, CHOOSE i \in 1..Len(s) :
                   ~IsSpace(s[i]) /\ \A j \in 1..(i - 1) : IsSpace(s[j]),
              Len(s))

TrimEnd(s) ==
  IF \A i \in 1..Len(s) : IsSpace(s[i]) THEN <<>>
  ELSE SubSeq(s, 1,
              CHOOSE i \in 1..Len(s) :
                ~IsSpace(s[i]) /\ \A j \in (i + 1)..Len(s) : IsSpace(s[j]))

\* String.prototype.trim
Trim(s) == TrimEnd(TrimStart(s))

\* value of a sequence of decimal digits
RECURSIVE DigitsVal(_)
DigitsVal(ds) ==
  IF ds = <<>> THEN 0
  ELSE 10 * DigitsVal(SubSeq(ds, 1, Len(ds) - 1)) + DigitVal(ds[Len(ds)])

\* length of the longest prefix of s made of digits
RECURSIVE DigitPrefixLen(_)
DigitPrefixLen(s) ==
  IF s # <<>> /\ IsDigit(Head(s)) THEN 1 + DigitPrefixLen(Tail(s)) ELSE 0

Abs(n) == IF n < 0 THEN -n ELSE n

\* parseInt(text) without radix, for inputs with no 0x prefix: leading white
\* space, an optional sign, then the longest run of digits; NaN when there is
\* no digit.  The result is [nan |-> TRUE] or [nan |-> FALSE, val |-> n].
ParseInt(text) ==
  LET t == TrimStart(text)
      neg == t # <<>> /\ Head(t) = "-"
      body == IF t # <<>> /\ Head(t) \in {"-", "+"} THEN Tail(t) ELSE t
      n == DigitPrefixLen(body)
      v == DigitsVal(SubSeq(body, 1, n))
  IN  IF n = 0 THEN [nan |-> TRUE]
      ELSE [nan |-> FALSE, val |-> IF neg THEN -v ELSE v]

-----------------------------------------------------------------------------
(* parser.ts                                                               *)

maxLength == 500
maxNameLength == 255

\* the class [<>"'`]; the backtick is written "BACKTICK"
DangerousChars == {"<", ">", "\"", "'", "BACKTICK"}

\* null (a failed parse, a failed validation)
Null == [null |-> TRUE]

\* validateInput on the trimmed input: [text |-> the sanitized text], or Null
sanitize(trimmed) == SelectSeq(trimmed, LAMBDA c : c \notin DangerousChars)

\* a faulty validateInput: no limit on the length
validateTrimmedAnyLength(trimmed) ==
  IF Len(trimmed) = 0 THEN Null
  ELSE IF Len(sanitize(trimmed)) = 0 THEN Null
  ELSE [text |-> sanitize(trimmed)]

validateTrimmed(trimmed) ==
  IF Len(trimmed) = 0 \/ Len(trimmed) > maxLength THEN Null
  ELSE IF Len(sanitize(trimmed)) = 0 THEN Null
  ELSE [text |-> sanitize(trimmed)]

validateInput(input) == IF input = <<>> THEN Null ELSE validateTrimmed(Trim(input))

\* index of the first white-space character of s, or 0
FirstSpace(s, i) ==
  IF \A j \in i..Len(s) : ~IsSpace(s[j]) THEN 0
  ELSE CHOOSE j \in i..Len(s) :
         IsSpace(s[j]) /\ \A k \in i..(j - 1) : ~IsSpace(s[k])

\* index of the last white-space character of s, or 0
LastSpace(s, i) ==
  IF \A j \in 1..i : ~IsSpace(s[j]) THEN 0
  ELSE CHOOSE j \in 1..i :
         IsSpace(s[j]) /\ \A k \in (j + 1)..i : ~IsSpace(s[k])

\* does tok match  \$?-?\d+(?:\.\d{1,2})?  (dollar: whether \$? is in the pattern)
IsNumberToken(tok, dollar) ==
  LET a == IF dollar /\ tok # <<>> /\ Head(tok) = "$" THEN Tail(tok) ELSE tok
      b == IF a # <<>> /\ Head(a) = "-" THEN Tail(a) ELSE a
      n == DigitPrefixLen(b)
      rest == SubSeq(b, n + 1, Len(b))
  IN  /\ n >= 1
      /\ \/ rest = <<>>
         \/ /\ Len(rest) \in {2, 3}
            /\ Head(rest) = "."
            /\ \A i \in 2..Len(rest) : IsDigit(rest[i])

\* match[k].replace('$', '').replace(',', '') then parseFloat, in cents
\* (the token holds no comma: the patterns admit none)
ParseAmountCents(tok) ==
  LET a == IF tok # <<>> /\ Head(tok) = "$" THEN Tail(tok) ELSE tok
      neg == a # <<>> /\ Head(a) = "-"
      b == IF neg THEN Tail(a) ELSE a
      n == DigitPrefixLen(b)
      whole == DigitsVal(SubSeq(b, 1, n))
      frac == SubSeq(b, n + 2, Len(b))
      cents == IF Len(frac) = 0 THEN 0
               ELSE IF Len(frac) = 1 THEN 10 * DigitVal(frac[1])
               ELSE 10 * DigitVal(frac[1]) + DigitVal(frac[2])
      v == 100 * whole + cents
  IN  IF neg THEN -v ELSE v

\* the "." of (.+) and (.+?) matches no line break: the text a group takes
\* once \s+ has taken the white space next to it
NoLineBreak(s) == \A j \in 1..Len(s) : s[j] # "\n"

\* a faulty Accepted: the sign written in the text is kept
AcceptedSigned(tok, name) ==
  IF Len(name) > 0 /\ Len(name) <= maxNameLength
  THEN [amount |-> ParseAmountCents(tok), name |-> name]
  ELSE Null

\* a match as the loop accepts it: the amount parsed from the number token
\* and the trimmed name, or Null when the name is empty or over-long
Accepted(tok, name) ==
  IF Len(name) > 0 /\ Len(name) <= maxNameLength
  THEN [amount |-> Abs(ParseAmountCents(tok)), name |-> name]
  ELSE Null

\* patterns[0], patterns[1]:  ^(NUM)\s+(.+)$ with i the first white space of
\* s: the number is the text before it, and at least one character follows it
AmountFirstAt(s, dollar, i) ==
  IF i = 0 \/ i + 1 > Len(s) \/ ~IsNumberToken(SubSeq(s, 1, i - 1), dollar)
       \/ ~NoLineBreak(TrimStart(SubSeq(s, i + 1, Len(s))))
  THEN Null
  ELSE Accepted(SubSeq(s, 1, i - 1), Trim(SubSeq(s, i + 1, Len(s))))

MatchAmountFirst(s, dollar) == AmountFirstAt(s, dollar, FirstSpace(s, 1))

\* patterns[2], patterns[3]:  ^(.+?)\s+(NUM)$ with i the last white space of
\* s: the number is the text after it, and at least one character precedes it
NameFirstAt(s, dollar, i) ==
  IF i <= 1 \/ ~IsNumberToken(SubSeq(s, i + 1, Len(s)), dollar)
       \/ ~NoLineBreak(TrimEnd(SubSeq(s, 1, i - 1)))
  THEN Null
  ELSE Accepted(SubSeq(s, i + 1, Len(s)), Trim(SubSeq(s, 1, i - 1)))

MatchNameFirst(s, dollar) == NameFirstAt(s, dollar, LastSpace(s, Len(s)))

\* for (const pattern of patterns): the first accepted match, or Null
FirstAccepted(matches) ==
  IF \A i \in 1..Len(matches) : matches[i] = Null THEN Null
  ELSE matches[CHOOSE i \in 1..Len(matches) :
                 /\ matches[i] # Null
                 /\ \A j \in 1..(i - 1) : matches[j] = Null]

\* a faulty matchPatterns: the name-first patterns are tried first
matchPatternsNameFirst(s) ==
  FirstAccepted(<< MatchNameFirst(s, FALSE), MatchNameFirst(s, TRUE),
                   MatchAmountFirst(s, FALSE), MatchAmountFirst(s, TRUE) >>)

\* the four patterns tried in order on the validated text
matchPatterns(s) ==
  FirstAccepted(<< MatchAmountFirst(s, FALSE), MatchAmountFirst(s, TRUE),
                   MatchNameFirst(s, FALSE), MatchNameFirst(s, TRUE) >>)

parseValidated(validated) ==
  IF validated = Null THEN Null ELSE matchPatterns(validated.text)

parseTransactionDetails(input) == parseValidated(validateInput(input))

-----------------------------------------------------------------------------
(* Reference data and inbound texts                                        *)

\* chat identities (the remoteJid of a message) and their phone numbers
Users == {"u1", "u2"}
PhoneNumbers == {"p1", "p2"}

\* a faulty phoneNumber: every sender is counted under the same number
phoneNumberShared(sender) == "p1"

\* index.ts: sender.split('@')[0].replace(/[^0-9]/g, '')
phoneNumber(sender) == IF sender = "u1" THEN "p1" ELSE "p2"

Cash == [id |-> "acc-cash", name |-> <<"C","a","s","h">>]
Bank == [id |-> "acc-bank", name |-> <<"B","a","n","k">>]

Food   == [id |-> "cat-food", name |-> <<"F","o","o","d">>,
           classification |-> "expense"]
Rent   == [id |-> "cat-rent", name |-> <<"R","e","n","t">>,
           classification |-> "expense"]
Salary == [id |-> "cat-salary", name |-> <<"S","a","l","a","r","y">>,
           classification |-> "income"]

\* what GET /api/v1/accounts and GET /api/v1/categories may answer
AccountLists == {<<>>, <<Cash, Bank>>}
CategoryLists == {<<Food, Salary>>, <<Salary, Food>>, <<Rent>>}

mNew         == <<"n","e","w">>
mAdd         == <<"/","A","d","d">>
mCancel      == <<" ","C","a","n","c","e","l"," ">>
mSlashCancel == <<"/","c","a","n","c","e","l">>
mBack        == <<"b","a","c","k">>
mMenu        == <<"M","E","N","U">>
mHelp        == <<"/","h","e","l","p">>
mRecent      == <<"r","e","c","e","n","t">>
mAccounts    == <<"/","a","c","c","o","u","n","t","s">>
mOne         == <<"1">>
mTwo         == <<"2">>
mThree       == <<" ","3">>
mExpense     == <<"E","x","p","e","n","s","e">>
mIncome      == <<"i","n","c","o","m","e">>
mCash        == <<"c","a","s","h">>
mFood        == <<"F","O","O","D">>
mSalary      == <<"s","a","l","a","r","y">>
mRent        == <<"r","e","n","t">>
mCoffee      == <<"2","5",".","5","0"," ","C","o","f","f","e","e">>
mGas         == <<"G","a","s"," ","$","-","7">>
mInvalid     == <<"i","n","v","a","l","i","d">>
mAddWord     == <<"a","d","d"," ">>
mExpenses    == <<"e","x","p","e","n","s","e","s">>
mSlashBack   == <<"/","B","a","c","k">>
mHelpWord    == <<" ","H","e","l","p">>
mTwoX        == <<"2","x">>

Messages ==
  { mNew, mAdd, mCancel, mSlashCancel, mBack, mMenu, mHelp, mRecent, mAccounts,
    mOne, mTwo, mThree, mExpense, mIncome, mCash, mFood, mSalary, mRent,
    mCoffee, mGas, mInvalid, mAddWord, mExpenses, mSlashBack, mHelpWord,
    mTwoX }

\* the decimal text of a number below ten
Digits(n) == <<DigitChars[n + 1]>>

\* what the handlers compute from a text, worked out once for each text:
\* message.trim(), message.trim().toLowerCase(), parseInt(message.trim())
\* and parseTransactionDetails(message)
textInfo(trimmedText, message) ==
  [trimmed |-> trimmedText, lowered |-> ToLowerCase(trimmedText),
   int |-> ParseInt(trimmedText), parsed |-> parseTransactionDetails(message)]

\* the texts of Messages, and the texts the properties below reply with
Texts ==
  Messages \cup {Digits(n) : n \in 1..9}
    \cup {Food.name, Rent.name, Salary.name, Cash.name, Bank.name}

TextTable == [m \in Texts |-> textInfo(Trim(m), m)]

trimmed(message) == TextTable[message].trimmed
lowered(message) == TextTable[message].lowered
parseIntOf(message) == TextTable[message].int
parsedDetails(message) == TextTable[message].parsed

-----------------------------------------------------------------------------
(* Bounds                                                                  *)

\* createTransaction calls in flight at once
MaxPending == 1

\* createTransaction calls awaited at once when messages are handled
\* concurrently
MaxInFlight == 2
\* the clock stops here
MaxTime == 4
\* new SessionManager(): sessionTimeoutMs, in clock ticks
sessionTimeoutMs == 2
\* new RateLimiter(maxAttempts, windowMs), the window in clock ticks
maxAttempts == 2
windowMs == 2
\* destroy() calls counted per object
MaxDestroyCalls == 2

-----------------------------------------------------------------------------
VARIABLES
  sessions,             \* state.ts: the module-level Map userId -> UserSession
  categories,           \* Bot.categories
  accounts,             \* Bot.accounts
  botReady,             \* index.ts start(): whether bot.initialize() succeeded
  pending,              \* createTransaction calls awaited by handleSelectCategory
  reply,                \* the text the last step sent, with its recipient, or Null
  now,                  \* Date.now()
  userAttempts,         \* RateLimiter.userAttempts: Map userId -> number[]
  result,               \* the last call of a RateLimiter or SessionManager
                        \* method with what it returned, or Null
  admitted,             \* history: the times of the admitted isAllowed calls
                        \* of each identity since its last reset
  managerSessions,      \* SessionManager.sessions
  allowedPhoneNumbers,  \* config.allowedPhoneNumbers
  step,                 \* the position of each identity in the scripted scenario
  limiter,              \* the RateLimiter object: maxAttempts, windowMs and
                        \* the timer behind cleanupInterval; Null before new
  managerInterval,      \* SessionManager.cleanupInterval: "armed" or "null"
  destroyed,            \* history: how often destroy() was called on each object
  parserCall,           \* the last parseTransactionDetails call: its input
                        \* and what it returned, or Null
  unswept,              \* the userAttempts of a second RateLimiter that gets
                        \* the same calls and whose interval never fires
  everAdmitted          \* history: the times of all admitted isAllowed calls
                        \* of each identity, old ones included

vars == <<sessions, categories, accounts, botReady, pending, reply, now,
          userAttempts, result, admitted, managerSessions, allowedPhoneNumbers,
          step, limiter, managerInterval, destroyed, parserCall, unswept,
          everAdmitted>>

botVars == <<categories, accounts, botReady>>
limiterVars == <<userAttempts, result, admitted>>
twinVars == <<unswept, everAdmitted>>
unitVars == <<limiter, managerInterval, destroyed, parserCall, twinVars>>

-----------------------------------------------------------------------------
(* state.ts                                                                *)

\* a UserSession is a record with the optional fields present or absent
FreshSession(t) == [state |-> "IDLE", createdAt |-> t, lastActivityAt |-> t]

\* getSession: the map after the lazy creation; the session is map[userId]
getSession(sess, userId, t) ==
  IF userId \in DOMAIN sess THEN sess ELSE (userId :> FreshSession(t)) @@ sess

\* updateSession: { ...session, ...updates, lastActivityAt: new Date() }
updateSession(sess, userId, updates, t) ==
  LET got == getSession(sess, userId, t)
  IN  [got EXCEPT ![userId] = [lastActivityAt |-> t] @@ updates @@ got[userId]]

\* a faulty resetSession: the state goes back to IDLE, the answers stay
resetSessionKeepingAnswers(sess, userId, t) ==
  updateSession(sess, userId, [state |-> "IDLE"], t)

\* resetSession: a fresh IDLE session replaces the entry
resetSession(sess, userId, t) == (userId :> FreshSession(t)) @@ sess

\* the categories in the order formatCategoriesList numbers them: the expense
\* entries, then the income entries; number i stands before entry i
ListedCategories(cats) ==
  SelectSeq(cats, LAMBDA c : c.classification = "expense")
    \o SelectSeq(cats, LAMBDA c : c.classification = "income")

formatCategoriesList(cats) ==
  [kind |-> "categoriesList",
   lines |-> [i \in 1..Len(ListedCategories(cats)) |-> ListedCategories(cats)[i].name]]

\* formatAccountsList: the accounts numbered in the given order
formatAccountsList(accs) ==
  IF Len(accs) = 0 THEN [kind |-> "noAccounts"]
  ELSE [kind |-> "accountsList", lines |-> [i \in 1..Len(accs) |-> accs[i].name]]

-----------------------------------------------------------------------------
(* bot.ts: class Bot                                                       *)

\* what a handler hands back: the session map, the text returned (Null while
\* a createTransaction call is awaited) and that call (Null when none is made)
Result(sess, text, call) == [sessions |-> sess, reply |-> text, call |-> call]

\* list.find(x => x.name.toLowerCase() === text.toLowerCase()) for the
\* trimmed text of the message: [item |-> x] or Null
FindByName(list, message) ==
  LET hits == {i \in 1..Len(list) : ToLowerCase(list[i].name) = lowered(message)}
  IN  IF hits = {} THEN Null
      ELSE [item |-> list[CHOOSE i \in hits : \A j \in hits : i <= j]]

\* the selection of handleSelectAccount and handleSelectCategory:
\* parseInt(text) - 1 as an index when it is one, else the name
SelectAt(list, message, parsed) ==
  IF ~parsed.nan /\ parsed.val - 1 >= 0 /\ parsed.val - 1 < Len(list)
  THEN [item |-> list[parsed.val]]
  ELSE FindByName(list, message)

Select(list, message) == SelectAt(list, message, parseIntOf(message))

\* a present field of a session under a (possibly different) name, or nothing
Field(session, f, as) ==
  IF f \in DOMAIN session THEN (as :> session[f]) ELSE <<>>

\* a faulty isCancel: only the slash command is recognised
isCancelSlashOnly(text) == text = <<"/","c","a","n","c","e","l">>

\* a faulty isBack: "menu" is not recognised
isBackWithoutMenu(text) == text \in {<<"/","b","a","c","k">>, <<"b","a","c","k">>}

\* a faulty isHelp: only the slash command is recognised
isHelpSlashOnly(text) == text = <<"/","h","e","l","p">>

\* the commands handleMessage checks before the state
isCancel(text) == text \in {<<"/","c","a","n","c","e","l">>, <<"c","a","n","c","e","l">>}
isBack(text) == text \in {<<"/","b","a","c","k">>, <<"b","a","c","k">>, <<"m","e","n","u">>}
isHelp(text) == text \in {<<"/","h","e","l","p">>, <<"h","e","l","p">>}

getMainMenu == [kind |-> "mainMenu"]
getHelpMessage == [kind |-> "help"]

listAccounts(accs) ==
  IF Len(accs) = 0 THEN [kind |-> "noAccountsShort"]
  ELSE [kind |-> "yourAccounts", lines |-> [i \in 1..Len(accs) |-> accs[i].name]]

\* getRecentTransactions: the collaborator answers (apiOk) or fails
getRecentTransactions(apiOk) ==
  IF apiOk THEN [kind |-> "recentTransactions"] ELSE [kind |-> "recentFailed"]

\* a faulty handleIdle: the flow starts although no account is cached
handleIdleWithoutAccounts(sess, userId, message, t, accs, apiOk) ==
  IF lowered(message) \in {<<"n","e","w">>, <<"/","a","d","d">>, <<"a","d","d">>}
  THEN Result(updateSession(sess, userId, [state |-> "SELECT_TYPE"], t),
              [kind |-> "typePrompt"], Null)
  ELSE Result(sess, getMainMenu, Null)

handleIdle(sess, userId, message, t, accs, apiOk) ==
  LET text == lowered(message)
  IN  IF text \in {<<"n","e","w">>, <<"/","a","d","d">>, <<"a","d","d">>}
      THEN IF Len(accs) = 0
           THEN Result(sess, [kind |-> "noAccounts"], Null)
           ELSE Result(updateSession(sess, userId, [state |-> "SELECT_TYPE"], t),
                       [kind |-> "typePrompt"], Null)
      ELSE IF text \in {<<"/","r","e","c","e","n","t">>, <<"r","e","c","e","n","t">>}
      THEN Result(sess, getRecentTransactions(apiOk), Null)
      ELSE IF text \in {<<"/","a","c","c","o","u","n","t","s">>,
                        <<"a","c","c","o","u","n","t","s">>}
      THEN Result(sess, listAccounts(accs), Null)
      ELSE Result(sess, getMainMenu, Null)

\* a faulty handleSelectType: the plural "expenses" is not an alias
handleSelectTypeNoPlural(sess, userId, message, t, accs) ==
  IF lowered(message) \in {<<"1">>, <<"e","x","p","e","n","s","e">>}
  THEN Result(updateSession(sess, userId,
                [state |-> "SELECT_ACCOUNT", transactionType |-> "expense",
                 accounts |-> accs], t),
              formatAccountsList(accs), Null)
  ELSE IF lowered(message) \in {<<"2">>, <<"i","n","c","o","m","e">>}
  THEN Result(updateSession(sess, userId,
                [state |-> "SELECT_ACCOUNT", transactionType |-> "income",
                 accounts |-> accs], t),
              formatAccountsList(accs), Null)
  ELSE Result(sess, [kind |-> "typeReprompt"], Null)

handleSelectType(sess, userId, message, t, accs) ==
  LET text == lowered(message)
  IN  IF text \in {<<"1">>, <<"e","x","p","e","n","s","e">>,
                   <<"e","x","p","e","n","s","e","s">>}
      THEN Result(updateSession(sess, userId,
                    [state |-> "SELECT_ACCOUNT", transactionType |-> "expense",
                     accounts |-> accs], t),
                  formatAccountsList(accs), Null)
      ELSE IF text \in {<<"2">>, <<"i","n","c","o","m","e">>}
      THEN Result(updateSession(sess, userId,
                    [state |-> "SELECT_ACCOUNT", transactionType |-> "income",
                     accounts |-> accs], t),
                  formatAccountsList(accs), Null)
      ELSE Result(sess, [kind |-> "typeReprompt"], Null)

\* a faulty selectAccount: the reply is only looked up as a name
selectAccountByNameOnly(session, accs, message) ==
  FindByName(IF "accounts" \in DOMAIN session THEN session.accounts ELSE accs, message)

\* handleSelectAccount: the list the reply is resolved against and the choice
selectAccount(session, accs, message) ==
  Select(IF "accounts" \in DOMAIN session THEN session.accounts ELSE accs, message)

handleSelectAccount(sess, userId, message, t, accs) ==
  LET session == getSession(sess, userId, t)[userId]
      selectedAccount == selectAccount(session, accs, message)
      example == IF "transactionType" \in DOMAIN session
                    /\ session.transactionType = "expense"
                 THEN "25.50 Trader Joe's" ELSE "1500 Salary"
  IN  IF selectedAccount = Null
      THEN Result(getSession(sess, userId, t), [kind |-> "invalidSelection"], Null)
      ELSE Result(updateSession(sess, userId,
                    [state |-> "ENTER_DETAILS",
                     accountId |-> selectedAccount.item.id], t),
                  [kind |-> "detailsPrompt", example |-> example,
                   account |-> selectedAccount.item.name], Null)

\* a faulty handleEnterDetails: a text the parser rejects ends the flow
handleEnterDetailsGivingUp(sess, userId, message, t, cats) ==
  IF parsedDetails(message) = Null
  THEN Result(resetSession(sess, userId, t), [kind |-> "somethingWrong"], Null)
  ELSE Result(updateSession(sess, userId,
                [state |-> "SELECT_CATEGORY",
                 amount |-> parsedDetails(message).amount,
                 name |-> parsedDetails(message).name, categories |-> cats], t),
              formatCategoriesList(cats), Null)

handleEnterDetails(sess, userId, message, t, cats) ==
  LET parsed == parsedDetails(message)
  IN  IF parsed = Null
      THEN Result(sess, [kind |-> "parseError"], Null)
      ELSE Result(updateSession(sess, userId,
                    [state |-> "SELECT_CATEGORY", amount |-> parsed.amount,
                     name |-> parsed.name, categories |-> cats], t),
                  formatCategoriesList(cats), Null)

\* a faulty selectCategory: a text that names no category picks the first
selectCategoryOrFirst(session, cats, message) ==
  IF Select(cats, message) = Null /\ Len(cats) > 0
  THEN [item |-> cats[1]]
  ELSE Select(cats, message)

\* handleSelectCategory: the choice, resolved against this.categories
selectCategory(session, cats, message) == Select(cats, message)

\* a faulty signedAmount: the stored magnitude, whatever the transaction type
unsignedAmount(session) ==
  IF "amount" \notin DOMAIN session THEN <<>>
  ELSE ("amount" :> Abs(session.amount))

\* handleSelectCategory: the amount as submitted, signed by the transaction
\* type; nothing (NaN) when the session holds no amount
signedAmount(session) ==
  IF "amount" \notin DOMAIN session THEN <<>>
  ELSE IF "transactionType" \in DOMAIN session /\ session.transactionType = "expense"
  THEN ("amount" :> -Abs(session.amount))
  ELSE ("amount" :> Abs(session.amount))

\* handleSelectCategory: this.accounts.find(a => a.id === session.accountId)?.name
accountNameOf(session, accs) ==
  LET hits == {i \in 1..Len(accs) :
                 "accountId" \in DOMAIN session /\ accs[i].id = session.accountId}
  IN  IF hits = {} THEN <<"U","n","k","n","o","w","n">>
      ELSE accs[CHOOSE i \in hits : \A j \in hits : i <= j].name

\* a faulty handleSelectCategory: the text returned on an invalid selection
\* is lost
handleSelectCategorySilent(sess, userId, message, t, cats, accs) ==
  LET session == getSession(sess, userId, t)[userId]
      selectedCategory == selectCategory(session, cats, message)
      params == [date |-> t, category_id |-> selectedCategory.item.id]
                  @@ signedAmount(session)
                  @@ Field(session, "accountId", "account_id")
                  @@ Field(session, "name", "name")
                  @@ Field(session, "transactionType", "nature")
  IN  IF selectedCategory = Null
      THEN Result(getSession(sess, userId, t), Null, Null)
      ELSE Result(getSession(sess, userId, t), Null,
                  [userId |-> userId, params |-> params,
                   categoryName |-> selectedCategory.item.name,
                   accountName |-> accountNameOf(session, accs)])

\* a faulty handleSelectCategory: the session leaves SELECT_CATEGORY before
\* the await
handleSelectCategoryOnce(sess, userId, message, t, cats, accs) ==
  LET session == getSession(sess, userId, t)[userId]
      selectedCategory == selectCategory(session, cats, message)
      params == [date |-> t, category_id |-> selectedCategory.item.id]
                  @@ signedAmount(session)
                  @@ Field(session, "accountId", "account_id")
                  @@ Field(session, "name", "name")
                  @@ Field(session, "transactionType", "nature")
  IN  IF selectedCategory = Null
      THEN Result(getSession(sess, userId, t), [kind |-> "invalidSelection"], Null)
      ELSE Result(resetSession(getSession(sess, userId, t), userId, t), Null,
                  [userId |-> userId, params |-> params,
                   categoryName |-> selectedCategory.item.name,
                   accountName |-> accountNameOf(session, accs)])

\* handleSelectCategory up to its await: the call carries what the
\* continuation keeps in its local variables (session, amount,
\* selectedCategory, accountName)
handleSelectCategory(sess, userId, message, t, cats, accs) ==
  LET session == getSession(sess, userId, t)[userId]
      selectedCategory == selectCategory(session, cats, message)
      params == [date |-> t, category_id |-> selectedCategory.item.id]
                  @@ signedAmount(session)
                  @@ Field(session, "accountId", "account_id")
                  @@ Field(session, "name", "name")
                  @@ Field(session, "transactionType", "nature")
  IN  IF selectedCategory = Null
      THEN Result(getSession(sess, userId, t), [kind |-> "invalidSelection"], Null)
      ELSE Result(getSession(sess, userId, t), Null,
                  [userId |-> userId, params |-> params,
                   categoryName |-> selectedCategory.item.name,
                   accountName |-> accountNameOf(session, accs)])

\* handleMessage up to its return or its first await
handleMessage(sess, userId, message, t, cats, accs, apiOk) ==
  LET got == getSession(sess, userId, t)
      session == got[userId]
      text == lowered(message)
  IN  IF isCancel(text)
      THEN Result(resetSession(got, userId, t), [kind |-> "cancelled"], Null)
      ELSE IF isBack(text)
      THEN Result(resetSession(got, userId, t), getMainMenu, Null)
      ELSE IF isHelp(text)
      THEN Result(got, getHelpMessage, Null)
      ELSE CASE session.state = "IDLE" ->
                  handleIdle(got, userId, message, t, accs, apiOk)
             [] session.state = "SELECT_TYPE" ->
                  handleSelectType(got, userId, message, t, accs)
             [] session.state = "SELECT_ACCOUNT" ->
                  handleSelectAccount(got, userId, message, t, accs)
             [] session.state = "ENTER_DETAILS" ->
                  handleEnterDetails(got, userId, message, t, cats)
             [] session.state = "SELECT_CATEGORY" ->
                  handleSelectCategory(got, userId, message, t, cats, accs)
             [] OTHER ->
                  Result(resetSession(got, userId, t),
                         [kind |-> "somethingWrong"], Null)

\* sure-api.ts createTransaction: the checks made before the request is sent
createTransactionValid(params) ==
  /\ "account_id" \in DOMAIN params
  /\ "name" \in DOMAIN params
  /\ Len(params.name) > 0
  /\ Len(params.name) <= maxNameLength

\* handleSelectCategory after its await: the confirmation text
confirmation(call) ==
  [kind |-> "confirmation",
   sign |-> IF "amount" \in DOMAIN call.params /\ call.params.amount < 0
            THEN "-" ELSE "+",
   amount |-> IF "amount" \in DOMAIN call.params
              THEN Abs(call.params.amount) ELSE 0,
   name |-> IF "name" \in DOMAIN call.params THEN call.params.name ELSE <<>>,
   category |-> call.categoryName,
   account |-> call.accountName]

-----------------------------------------------------------------------------
(* rate-limiter.ts: class RateLimiter                                      *)

\* a faulty filter: the window is one tick short
recentAttemptsShortWindow(attempts, t) ==
  SelectSeq(attempts, LAMBDA x : t - x < windowMs - 1)

\* attempts.filter((t) => now - t < this.windowMs)
recentAttempts(attempts, t) == SelectSeq(attempts, LAMBDA x : t - x < windowMs)

\* this.userAttempts.get(userId) || []
attemptsOf(ua, userId) == IF userId \in DOMAIN ua THEN ua[userId] ELSE <<>>

\* a faulty isAllowed: the budget is compared with > instead of >=
isAllowedOneMore(ua, userId, t) ==
  LET recent == recentAttempts(attemptsOf(ua, userId), t)
  IN  IF Len(recent) > maxAttempts
      THEN [userAttempts |-> ua, value |-> FALSE]
      ELSE [userAttempts |-> (userId :> Append(recent, t)) @@ ua, value |-> TRUE]

\* a faulty isAllowed: the rejected attempt is recorded too
isAllowedRecordingRejected(ua, userId, t) ==
  LET recent == recentAttempts(attemptsOf(ua, userId), t)
  IN  [userAttempts |-> (userId :> Append(recent, t)) @@ ua,
       value |-> Len(recent) < maxAttempts]

\* isAllowed: the map afterwards and the value returned
isAllowed(ua, userId, t) ==
  LET recent == recentAttempts(attemptsOf(ua, userId), t)
  IN  IF Len(recent) >= maxAttempts
      THEN [userAttempts |-> ua, value |-> FALSE]
      ELSE [userAttempts |-> (userId :> Append(recent, t)) @@ ua, value |-> TRUE]

\* a faulty getRemaining: the attempts outside the window are counted too
getRemainingUnfiltered(ua, userId, t) ==
  LET left == maxAttempts - Len(attemptsOf(ua, userId))
  IN  IF left > 0 THEN left ELSE 0

\* getRemaining
getRemaining(ua, userId, t) ==
  LET left == maxAttempts - Len(recentAttempts(attemptsOf(ua, userId), t))
  IN  IF left > 0 THEN left ELSE 0

\* a faulty reset: the whole map is cleared
resetEveryone(ua, userId) == <<>>

\* reset: this.userAttempts.delete(userId)
reset(ua, userId) == [u \in DOMAIN ua \ {userId} |-> ua[u]]

\* resetAll: this.userAttempts.clear()
resetAll(ua) == <<>>

\* a faulty cleanup: an identity with one attempt outside the window goes
cleanupDroppingRecent(ua, t) ==
  [u \in {v \in DOMAIN ua : Len(recentAttempts(ua[v], t)) = Len(ua[v])} |-> ua[u]]

\* cleanup: identities with no recent attempt go, the others keep the recent ones
cleanup(ua, t) ==
  [u \in {v \in DOMAIN ua : Len(recentAttempts(ua[v], t)) # 0} |->
     recentAttempts(ua[u], t)]

\* a faulty destroy: the map is cleared, the interval keeps running
destroyLeavingInterval(l) == l

\* destroy: clearInterval(this.cleanupInterval); the map is cleared by the step
destroy(l) == [l EXCEPT !.cleanupInterval = "cleared"]

-----------------------------------------------------------------------------
(* types.ts: class SessionManager                                          *)

\* getOrCreateSession: a new IDLE session, or the session stamped
getOrCreateSession(ms, userId, t) ==
  IF userId \in DOMAIN ms
  THEN [ms EXCEPT ![userId] = [lastActivityAt |-> t] @@ ms[userId]]
  ELSE (userId :> FreshSession(t)) @@ ms

\* SessionManager.getSession: the session stamped if there is one
managerGetSession(ms, userId, t) ==
  IF userId \in DOMAIN ms
  THEN [ms EXCEPT ![userId] = [lastActivityAt |-> t] @@ ms[userId]]
  ELSE ms

\* SessionManager.updateSession: Object.assign(session, updates), then the stamp
managerUpdateSession(ms, userId, updates, t) ==
  LET got == getOrCreateSession(ms, userId, t)
  IN  [got EXCEPT ![userId] = [lastActivityAt |-> t] @@ updates @@ got[userId]]

\* SessionManager.resetSession: this.sessions.delete(userId)
managerResetSession(ms, userId) == [u \in DOMAIN ms \ {userId} |-> ms[u]]

\* a faulty clearExpiredSessions: a session idle for exactly the timeout goes
clearExpiredSessionsEarly(ms, t) ==
  [u \in {v \in DOMAIN ms : ~(t - ms[v].lastActivityAt >= sessionTimeoutMs)} |-> ms[u]]

\* clearExpiredSessions
clearExpiredSessions(ms, t) ==
  [u \in {v \in DOMAIN ms : ~(t - ms[v].lastActivityAt > sessionTimeoutMs)} |-> ms[u]]

-----------------------------------------------------------------------------
(* index.ts: config.allowedPhoneNumbers                                    *)

\* config.allowedPhoneNumbers.includes(phone)
includes(list, x) == \E i \in 1..Len(list) : list[i] = x

\* the check that lets a message of this phone number through
isAuthorized(allowed, phone) == ~(Len(allowed) > 0 /\ ~includes(allowed, phone))

-----------------------------------------------------------------------------
(* The program's steps                                                     *)

\* new Bot(sureApi) and bot.initialize() in start(): the caches as loaded
Initialized(cats, accs, outcome) ==
  /\ categories = IF outcome = "categoriesFail" THEN <<>> ELSE cats
  /\ accounts = IF outcome = "ok" THEN accs ELSE <<>>
  /\ botReady = (outcome = "ok")

InitOutcomes == {"ok", "categoriesFail", "accountsFail"}

\* new RateLimiter(max, window): the two fields, and the interval the
\* constructor sets
RateLimiter(max, window) ==
  [maxAttempts |-> max, windowMs |-> window, cleanupInterval |-> "armed"]

\* index.ts:26-27 and 46: the limiter and the session manager of the process,
\* with the manager's interval started; nothing destroyed, nothing parsed
InitUnits ==
  /\ limiter = RateLimiter(maxAttempts, windowMs)
  /\ managerInterval = "armed"
  /\ destroyed = [rateLimiter |-> 0, sessionManager |-> 0]
  /\ parserCall = Null
  /\ unswept = <<>>
  /\ everAdmitted = [p \in PhoneNumbers |-> <<>>]

Init ==
  /\ sessions = <<>>
  /\ pending = <<>>
  /\ reply = Null
  /\ now = 0
  /\ userAttempts = <<>>
  /\ result = Null
  /\ admitted = [p \in PhoneNumbers |-> <<>>]
  /\ managerSessions = <<>>
  /\ allowedPhoneNumbers = <<"p1", "p2">>
  /\ step = [u \in Users |-> 0]
  /\ InitUnits
  /\ \E cats \in CategoryLists, accs \in AccountLists, outcome \in InitOutcomes :
       Initialized(cats, accs, outcome)

\* connection.update 'close': start() runs again with a new Bot
Start ==
  /\ \E cats \in CategoryLists, accs \in AccountLists, outcome \in InitOutcomes :
       /\ categories' = IF outcome = "categoriesFail" THEN <<>> ELSE cats
       /\ accounts' = IF outcome = "ok" THEN accs ELSE <<>>
       /\ botReady' = (outcome = "ok")
  /\ reply' = Null
  /\ UNCHANGED <<sessions, pending, now, limiterVars, managerSessions,
                 allowedPhoneNumbers, step, unitVars>>

\* bot.handleMessage(userId, message), to its return or to its await: what it
\* does to the sessions, the calls in flight and the reply
BotStep(userId, message, apiOk) ==
  \E r \in {handleMessage(sessions, userId, message, now, categories, accounts, apiOk)} :
      /\ r.call # Null => Len(pending) < MaxPending
      /\ sessions' = r.sessions
      /\ pending' = IF r.call = Null THEN pending ELSE Append(pending, r.call)
      /\ reply' = IF r.reply = Null THEN Null ELSE [to |-> userId] @@ r.reply

\* index.ts:139 with the bot ready: bot.handleMessage(sender, text)
HandleMessage(userId, message, apiOk) ==
  /\ botReady
  /\ BotStep(userId, message, apiOk)
  /\ UNCHANGED <<botVars, now, limiterVars, managerSessions, allowedPhoneNumbers,
                 step, unitVars>>

\* the awaited createTransaction call i answers (ok) or throws
CreateTransactionReturns(i, ok) ==
  LET call == pending[i]
  IN  /\ ok => createTransactionValid(call.params)
      /\ pending' = [j \in 1..(Len(pending) - 1) |->
                       IF j < i THEN pending[j] ELSE pending[j + 1]]
      /\ sessions' = IF ok THEN resetSession(sessions, call.userId, now)
                     ELSE sessions
      /\ reply' = [to |-> call.userId]
                    @@ (IF ok THEN confirmation(call) ELSE [kind |-> "submitFailed"])
      /\ UNCHANGED <<botVars, now, limiterVars, managerSessions,
                     allowedPhoneNumbers, step, unitVars>>

\* time passes
Tick ==
  /\ now < MaxTime
  /\ now' = now + 1
  /\ reply' = Null
  /\ result' = Null
  /\ admitted' = [p \in PhoneNumbers |->
                    SelectSeq(admitted[p], LAMBDA x : (now + 1) - x < windowMs)]
  /\ UNCHANGED <<sessions, botVars, pending, userAttempts, managerSessions,
                 allowedPhoneNumbers, step, unitVars>>

\* the interval of sessionManager.startCleanupInterval() fires
ClearExpiredSessions ==
  /\ managerInterval = "armed"
  /\ now >= sessionTimeoutMs
  /\ managerSessions' = clearExpiredSessions(managerSessions, now)
  /\ result' = [op |-> "clearExpiredSessions",
                expiredCount |-> Cardinality(DOMAIN managerSessions
                                               \ DOMAIN managerSessions')]
  /\ reply' = Null
  /\ UNCHANGED <<sessions, botVars, pending, now, userAttempts, admitted,
                 allowedPhoneNumbers, step, unitVars>>

Messaging ==
  \E m \in Messages, apiOk \in BOOLEAN :
    (apiOk \/ m = mRecent) /\ HandleMessage("u1", m, apiOk)

Returning ==
  \E i \in 1..Len(pending), ok \in BOOLEAN : CreateTransactionReturns(i, ok)

Next ==
  \/ Messaging
  \/ Returning

Spec == Init /\ [][Next]_vars

-----------------------------------------------------------------------------
(* The conversation across reconnections: start() runs again               *)

FlowMessages == {mNew, mOne, mTwo, mCash, mCoffee, mFood, mSalary, mRent, mCancel}

Reconnecting ==
  \E m \in FlowMessages : HandleMessage("u1", m, TRUE)

NextReconnect ==
  \/ Reconnecting
  \/ Returning
  \/ Start

SpecReconnect == Init /\ [][NextReconnect]_vars

-----------------------------------------------------------------------------
(* Messages handled while a submission is in flight                        *)

\* index.ts:79-143: the messages.upsert handler is async and nothing holds a
\* second message back while bot.handleMessage awaits createTransaction
HandleMessageConcurrently(userId, message) ==
  /\ botReady
  /\ \E r \in {handleMessage(sessions, userId, message, now, categories, accounts, TRUE)} :
       /\ r.call # Null => Len(pending) < MaxInFlight
       /\ sessions' = r.sessions
       /\ pending' = IF r.call = Null THEN pending ELSE Append(pending, r.call)
       /\ reply' = IF r.reply = Null THEN Null ELSE [to |-> userId] @@ r.reply
  /\ UNCHANGED <<botVars, now, limiterVars, managerSessions, allowedPhoneNumbers,
                 step, unitVars>>

NextConcurrent ==
  \/ \E m \in FlowMessages : HandleMessageConcurrently("u1", m)
  \/ Returning

SpecConcurrent == Init /\ [][NextConcurrent]_vars

-----------------------------------------------------------------------------
(* Two identities in conversation with the bot                             *)

InitTwoUsers ==
  /\ Init
  /\ botReady
  /\ accounts = <<Cash, Bank>>
  /\ categories = <<Food, Salary>>

\* the flow by numbers, a text that names nothing, and the way out
TwoUsersMessages == {mNew, mOne, mCoffee, mRent, mCancel}

NextTwoUsers ==
  \/ \E u \in Users, m \in TwoUsersMessages : HandleMessage(u, m, TRUE)
  \/ Returning

SpecTwoUsers == InitTwoUsers /\ [][NextTwoUsers]_vars

-----------------------------------------------------------------------------
(* Every call answers: the conversation with calls that return             *)

\* the createTransaction calls of an identity that are in flight
InFlight(u) == {i \in 1..Len(pending) : pending[i].userId = u}

\* bot.handleMessage(u, m) for an identity whose earlier message has been
\* answered: the messages of one identity are handled in turn
HandleMessageInTurn(u, m, apiOk) ==
  /\ botReady
  /\ InFlight(u) = {}
  /\ \E r \in {handleMessage(sessions, u, m, now, categories, accounts, apiOk)} :
       /\ sessions' = r.sessions
       /\ pending' = IF r.call = Null THEN pending ELSE Append(pending, r.call)
       /\ reply' = IF r.reply = Null THEN Null ELSE [to |-> u] @@ r.reply
  /\ UNCHANGED <<botVars, now, limiterVars, managerSessions, allowedPhoneNumbers,
                 step, unitVars>>

\* the awaited call of the identity returns or fails
ReturnsTo(u) ==
  \E i \in InFlight(u), ok \in BOOLEAN : CreateTransactionReturns(i, ok)

NextLive ==
  \/ \E u \in Users, m \in Messages, apiOk \in BOOLEAN :
       (apiOk \/ m = mRecent) /\ HandleMessageInTurn(u, m, apiOk)
  \/ \E u \in Users : ReturnsTo(u)

\* sure-api.ts: every request carries timeout: 30000, so an awaited call
\* returns or fails
SpecLive ==
  /\ InitTwoUsers
  /\ [][NextLive]_vars
  /\ \A u \in Users : WF_vars(ReturnsTo(u))

-----------------------------------------------------------------------------
(* Abandoned conversations and the session sweep                           *)

ExpiryMessages == {mNew, mOne, mCancel}

InitExpiry ==
  /\ Init
  /\ botReady
  /\ accounts = <<Cash, Bank>>
  /\ categories = <<Food, Salary>>

NextExpiry ==
  \/ \E u \in Users, m \in ExpiryMessages : HandleMessage(u, m, TRUE)
  \/ Tick
  \/ ClearExpiredSessions

SpecExpiry == InitExpiry /\ [][NextExpiry]_vars

-----------------------------------------------------------------------------
(* The RateLimiter driven through its public methods                       *)

IsAllowed(id) ==
  \E r \in {isAllowed(userAttempts, id, now)} :
    /\ userAttempts' = r.userAttempts
    /\ result' = [op |-> "isAllowed", userId |-> id, value |-> r.value]
    /\ admitted' = IF r.value THEN [admitted EXCEPT ![id] = Append(@, now)]
                   ELSE admitted
    /\ reply' = Null
    /\ UNCHANGED <<sessions, botVars, pending, now, managerSessions,
                   allowedPhoneNumbers, step, unitVars>>

GetRemaining(id) ==
  /\ result' = [op |-> "getRemaining", userId |-> id,
                value |-> getRemaining(userAttempts, id, now)]
  /\ reply' = Null
  /\ UNCHANGED <<sessions, botVars, pending, now, userAttempts, admitted,
                 managerSessions, allowedPhoneNumbers, step, unitVars>>

Reset(id) ==
  /\ userAttempts' = reset(userAttempts, id)
  /\ admitted' = [admitted EXCEPT ![id] = <<>>]
  /\ result' = [op |-> "reset", userId |-> id]
  /\ reply' = Null
  /\ UNCHANGED <<sessions, botVars, pending, now, managerSessions,
                 allowedPhoneNumbers, step, unitVars>>

\* resetAll: this.userAttempts.clear()
ResetAll ==
  /\ userAttempts' = resetAll(userAttempts)
  /\ admitted' = [p \in PhoneNumbers |-> <<>>]
  /\ result' = [op |-> "resetAll"]
  /\ reply' = Null
  /\ UNCHANGED <<sessions, botVars, pending, now, managerSessions,
                 allowedPhoneNumbers, step, unitVars>>

\* the interval set in the constructor (windowMs * 2) fires
Cleanup ==
  /\ limiter # Null
  /\ limiter.cleanupInterval = "armed"
  /\ now >= windowMs * 2
  /\ userAttempts' = cleanup(userAttempts, now)
  /\ result' = Null
  /\ reply' = Null
  /\ UNCHANGED <<sessions, botVars, pending, now, admitted, managerSessions,
                 allowedPhoneNumbers, step, unitVars>>

NextLimiter ==
  \/ \E id \in PhoneNumbers : IsAllowed(id)
  \/ \E id \in PhoneNumbers : GetRemaining(id)
  \/ \E id \in PhoneNumbers : Reset(id)
  \/ ResetAll
  \/ Cleanup
  \/ Tick

SpecLimiter == Init /\ [][NextLimiter]_vars

-----------------------------------------------------------------------------
(* The RateLimiter from its construction                                   *)

\* the values a caller passes for maxAttempts and for windowMs
ConstructorArgs == -1..2

\* isAllowed on a limiter l as constructed: its fields are what the
\* constructor was given
isAllowedOf(l, ua, userId, t) ==
  LET recent == SelectSeq(attemptsOf(ua, userId), LAMBDA x : t - x < l.windowMs)
  IN  IF Len(recent) >= l.maxAttempts
      THEN [userAttempts |-> ua, value |-> FALSE]
      ELSE [userAttempts |-> (userId :> Append(recent, t)) @@ ua, value |-> TRUE]

\* the module before index.ts:26 runs: no limiter yet, no interval started
InitConstruct ==
  /\ sessions = <<>>
  /\ pending = <<>>
  /\ reply = Null
  /\ now = 0
  /\ userAttempts = <<>>
  /\ result = Null
  /\ admitted = [p \in PhoneNumbers |-> <<>>]
  /\ managerSessions = <<>>
  /\ allowedPhoneNumbers = <<>>
  /\ step = [u \in Users |-> 0]
  /\ limiter = Null
  /\ managerInterval = "null"
  /\ destroyed = [rateLimiter |-> 0, sessionManager |-> 0]
  /\ parserCall = Null
  /\ unswept = <<>>
  /\ everAdmitted = [p \in PhoneNumbers |-> <<>>]
  /\ Initialized(<<Food, Salary>>, <<Cash, Bank>>, "ok")

\* new RateLimiter(max, window)
Construct(max, window) ==
  /\ limiter = Null
  /\ limiter' = RateLimiter(max, window)
  /\ result' = [op |-> "constructor"]
  /\ reply' = Null
  /\ UNCHANGED <<sessions, botVars, pending, now, userAttempts, admitted,
                 managerSessions, allowedPhoneNumbers, step, managerInterval,
                 destroyed, parserCall, twinVars>>

\* limiter.isAllowed(id) on the limiter constructed (the history of admitted
\* calls is kept for the limiter of index.ts only)
IsAllowedOn(id) ==
  /\ limiter # Null
  /\ \E r \in {isAllowedOf(limiter, userAttempts, id, now)} :
       /\ userAttempts' = r.userAttempts
       /\ result' = [op |-> "isAllowed", userId |-> id, value |-> r.value]
  /\ reply' = Null
  /\ UNCHANGED <<sessions, botVars, pending, now, admitted, managerSessions,
                 allowedPhoneNumbers, step, unitVars>>

NextConstruct ==
  \/ \E max \in ConstructorArgs, window \in ConstructorArgs : Construct(max, window)
  \/ \E id \in PhoneNumbers : IsAllowedOn(id)
  \/ Tick

SpecConstruct == InitConstruct /\ [][NextConstruct]_vars

-----------------------------------------------------------------------------
(* The SessionManager driven through its public methods                    *)

\* the partial sessions a caller passes to updateSession
ManagerUpdates ==
  {[state |-> "SELECT_TYPE"], [state |-> "ENTER_DETAILS", accountId |-> "acc-cash"]}

GetOrCreateSession(u) ==
  /\ managerSessions' = getOrCreateSession(managerSessions, u, now)
  /\ result' = [op |-> "getOrCreateSession", userId |-> u]
  /\ reply' = Null
  /\ UNCHANGED <<sessions, botVars, pending, now, userAttempts, admitted,
                 allowedPhoneNumbers, step, unitVars>>

ManagerGetSession(u) ==
  /\ managerSessions' = managerGetSession(managerSessions, u, now)
  /\ result' = [op |-> "getSession", userId |-> u]
  /\ reply' = Null
  /\ UNCHANGED <<sessions, botVars, pending, now, userAttempts, admitted,
                 allowedPhoneNumbers, step, unitVars>>

ManagerUpdateSession(u, updates) ==
  /\ managerSessions' = managerUpdateSession(managerSessions, u, updates, now)
  /\ result' = [op |-> "updateSession", userId |-> u]
  /\ reply' = Null
  /\ UNCHANGED <<sessions, botVars, pending, now, userAttempts, admitted,
                 allowedPhoneNumbers, step, unitVars>>

ManagerResetSession(u) ==
  /\ managerSessions' = managerResetSession(managerSessions, u)
  /\ result' = [op |-> "resetSession", userId |-> u]
  /\ reply' = Null
  /\ UNCHANGED <<sessions, botVars, pending, now, userAttempts, admitted,
                 allowedPhoneNumbers, step, unitVars>>

\* startCleanupInterval: nothing when the interval is set
StartCleanupInterval ==
  /\ managerInterval' = "armed"
  /\ result' = [op |-> "startCleanupInterval"]
  /\ reply' = Null
  /\ UNCHANGED <<sessions, botVars, pending, now, userAttempts, admitted,
                 managerSessions, allowedPhoneNumbers, step, limiter, destroyed,
                 parserCall, twinVars>>

\* stopCleanupInterval: clearInterval and the field set to null
StopCleanupInterval ==
  /\ managerInterval' = "null"
  /\ result' = [op |-> "stopCleanupInterval"]
  /\ reply' = Null
  /\ UNCHANGED <<sessions, botVars, pending, now, userAttempts, admitted,
                 managerSessions, allowedPhoneNumbers, step, limiter, destroyed,
                 parserCall, twinVars>>

NextManager ==
  \/ \E u \in Users : GetOrCreateSession(u)
  \/ \E u \in Users : ManagerGetSession(u)
  \/ \E u \in Users, updates \in ManagerUpdates : ManagerUpdateSession(u, updates)
  \/ \E u \in Users : ManagerResetSession(u)
  \/ StartCleanupInterval
  \/ StopCleanupInterval
  \/ ClearExpiredSessions
  \/ Tick

SpecManager == InitConstruct /\ [][NextManager]_vars

-----------------------------------------------------------------------------
(* The RateLimiter beside a second one that is never swept                 *)

\* isAllowed(id) called on both limiters at the same instant
IsAllowedTwice(id) ==
  \E r \in {isAllowed(userAttempts, id, now)}, q \in {isAllowed(unswept, id, now)} :
    /\ userAttempts' = r.userAttempts
    /\ unswept' = q.userAttempts
    /\ result' = [op |-> "isAllowed", userId |-> id, value |-> r.value,
                  unswept |-> q.value]
    /\ admitted' = IF r.value THEN [admitted EXCEPT ![id] = Append(@, now)]
                   ELSE admitted
    /\ everAdmitted' = IF r.value THEN [everAdmitted EXCEPT ![id] = Append(@, now)]
                       ELSE everAdmitted
    /\ reply' = Null
    /\ UNCHANGED <<sessions, botVars, pending, now, managerSessions,
                   allowedPhoneNumbers, step, limiter, managerInterval,
                   destroyed, parserCall>>

\* getRemaining(id) called on both limiters at the same instant
GetRemainingTwice(id) ==
  /\ result' = [op |-> "getRemaining", userId |-> id,
                value |-> getRemaining(userAttempts, id, now),
                unswept |-> getRemaining(unswept, id, now)]
  /\ reply' = Null
  /\ UNCHANGED <<sessions, botVars, pending, now, userAttempts, admitted,
                 managerSessions, allowedPhoneNumbers, step, unitVars>>

\* the interval fires: the limiter may have been constructed at any time
\* before the first call, so the sweep can come at any instant
CleanupAtAnyTime ==
  /\ limiter.cleanupInterval = "armed"
  /\ userAttempts' = cleanup(userAttempts, now)
  /\ result' = [op |-> "cleanup"]
  /\ reply' = Null
  /\ UNCHANGED <<sessions, botVars, pending, now, admitted, managerSessions,
                 allowedPhoneNumbers, step, unitVars>>

NextSweep ==
  \/ \E id \in PhoneNumbers : IsAllowedTwice(id)
  \/ \E id \in PhoneNumbers : GetRemainingTwice(id)
  \/ CleanupAtAnyTime
  \/ Tick

SpecSweep == InitTwoUsers /\ [][NextSweep]_vars

-----------------------------------------------------------------------------
(* Shutdown: destroy() of the limiter and of the session manager           *)

\* rateLimiter.destroy(): the interval cleared, the map cleared
Destroy ==
  /\ destroyed.rateLimiter < MaxDestroyCalls
  /\ limiter' = destroy(limiter)
  /\ userAttempts' = <<>>
  /\ admitted' = [p \in PhoneNumbers |-> <<>>]
  /\ destroyed' = [destroyed EXCEPT !.rateLimiter = @ + 1]
  /\ result' = [op |-> "destroy"]
  /\ reply' = Null
  /\ UNCHANGED <<sessions, botVars, pending, now, managerSessions,
                 allowedPhoneNumbers, step, managerInterval, parserCall, twinVars>>

\* sessionManager.destroy(): stopCleanupInterval(), then clearAll()
ManagerDestroy ==
  /\ destroyed.sessionManager < MaxDestroyCalls
  /\ managerInterval' = "null"
  /\ managerSessions' = <<>>
  /\ destroyed' = [destroyed EXCEPT !.sessionManager = @ + 1]
  /\ result' = [op |-> "destroy"]
  /\ reply' = Null
  /\ UNCHANGED <<sessions, botVars, pending, now, userAttempts, admitted,
                 allowedPhoneNumbers, step, limiter, parserCall, twinVars>>

\* the callers use an object until its destroy(), not after it (index.ts
\* exits the process); the two intervals fire whenever they are set
NextShutdown ==
  \/ destroyed.rateLimiter = 0 /\ IsAllowed("p1")
  \/ destroyed.sessionManager = 0 /\ GetOrCreateSession("u1")
  \/ destroyed.sessionManager = 0 /\ StartCleanupInterval
  \/ destroyed.sessionManager = 0 /\ StopCleanupInterval
  \/ Cleanup
  \/ ClearExpiredSessions
  \/ Destroy
  \/ ManagerDestroy
  \/ Tick

SpecShutdown == InitExpiry /\ [][NextShutdown]_vars

-----------------------------------------------------------------------------
(* parseTransactionDetails called on its own                               *)

\* number tokens the patterns admit, each with the value written, in cents
NumberTokens ==
  { [text |-> <<"5">>, cents |-> 500],
    [text |-> <<"-","5">>, cents |-> -500],
    [text |-> <<"$","5">>, cents |-> 500],
    [text |-> <<"$","-","5">>, cents |-> -500],
    [text |-> <<"1","2",".","5">>, cents |-> 1250],
    [text |-> <<"0",".","0","7">>, cents |-> 7],
    [text |-> <<"-","1","0","0",".","2","5">>, cents |-> -10025],
    [text |-> <<"0","0","7">>, cents |-> 700] }

\* tokens that look like amounts and match none of the patterns
BadTokens ==
  { <<"5",".">>,
    <<"1",".","2","3","4">>,
    <<"-","$","5">>,
    <<"1",",","0","0","0">>,
    <<"$">>,
    <<"+","5">> }

\* free texts, each with what is left of it without the characters < > " ' `
FreeTexts ==
  { [text |-> <<"T","e","a">>, clean |-> <<"T","e","a">>],
    [text |-> <<"G","a","s"," ","C","o">>, clean |-> <<"G","a","s"," ","C","o">>],
    [text |-> <<"C","o","f","f","e","e","<","s","c","r","i","p","t",">">>, clean |-> <<"C","o","f","f","e","e","s","c","r","i","p","t">>],
    [text |-> <<"a","BACKTICK","b","\"","c">>, clean |-> <<"a","b","c">>],
    [text |-> <<"x">>, clean |-> <<"x">>] }

\* a free text too long to be a name once a number is added to it
LongTexts ==
  { [text |-> [i \in 1..(maxNameLength - 5) |-> "x"],
     clean |-> [i \in 1..(maxNameLength - 5) |-> "x"]] }

\* white space between the amount and the name, and around the input
Seps == {<<" ">>, <<" ", " ">>, <<"\t">>}
Pads == {<<>>, <<" ">>}

\* the two layouts
AmountFirstText(tok, sep, name, pad) == pad \o tok \o sep \o name \o pad
NameFirstText(name, sep, tok, pad) == pad \o name \o sep \o tok \o pad

\* a number at both ends, with or without a text between them
BothEndsText(tok1, name, tok2) == tok1 \o <<" ">> \o name \o <<" ">> \o tok2
TwoNumbersText(tok1, tok2) == tok1 \o <<" ">> \o tok2

\* "5", white space, then a name of the greatest length allowed: the whole is
\* n characters long
FiveThenLongestName(n) ==
  <<"5">> \o [i \in 1..(n - maxNameLength - 1) |-> " "]
         \o [i \in 1..maxNameLength |-> "x"]

\* inputs that hold no transaction
EmptyInputs == {<<>>, <<" ", " ", " ">>, <<"\t", " ">>}
StrippedEmptyInputs == {<<"<", ">">>, <<"'", "BACKTICK", "\"">>, <<" ", "<", " ">>}
NoAmountInputs ==
  {<<"i","n","v","a","l","i","d">>, <<"T","e","a">>, <<"5">>, <<"5"," ","'">>,
   <<"T","e","a"," ","f","i","v","e">>, <<"5"," ","a","\n","b">>}
    \cup {AmountFirstText(tok, <<" ">>, name.text, <<>>) :
             tok \in BadTokens, name \in FreeTexts}
    \cup {NameFirstText(name.text, <<" ">>, tok, <<>>) :
             tok \in BadTokens, name \in FreeTexts}
TooLongInputs ==
  {[i \in 1..(maxLength + 1) |-> "a"], FiveThenLongestName(maxLength + 1)}
LongestInputs ==
  {FiveThenLongestName(maxLength),
   <<" ">> \o FiveThenLongestName(maxLength) \o <<" ", " ">>}
TooLongNameInputs ==
  {<<"5", " ">> \o [i \in 1..(maxNameLength + 1) |-> "x"],
   [i \in 1..(maxNameLength + 1) |-> "x"] \o <<" ", "5">>}

ParserInputs ==
  {AmountFirstText(tok.text, sep, name.text, pad) :
     tok \in NumberTokens, sep \in Seps, name \in FreeTexts, pad \in Pads}
    \cup {NameFirstText(name.text, sep, tok.text, pad) :
             tok \in NumberTokens, sep \in Seps, name \in FreeTexts, pad \in Pads}
    \cup {BothEndsText(tok1.text, name.text, tok2.text) :
             tok1 \in NumberTokens, name \in FreeTexts \cup LongTexts,
             tok2 \in NumberTokens}
    \cup {TwoNumbersText(tok1.text, tok2.text) :
             tok1 \in NumberTokens, tok2 \in NumberTokens}
    \cup EmptyInputs \cup StrippedEmptyInputs \cup NoAmountInputs
    \cup TooLongInputs \cup LongestInputs \cup TooLongNameInputs

\* a caller is about to call parseTransactionDetails(input)
InitParser ==
  /\ sessions = <<>>
  /\ pending = <<>>
  /\ reply = Null
  /\ now = 0
  /\ userAttempts = <<>>
  /\ result = Null
  /\ admitted = [p \in PhoneNumbers |-> <<>>]
  /\ managerSessions = <<>>
  /\ allowedPhoneNumbers = <<>>
  /\ step = [u \in Users |-> 0]
  /\ limiter = RateLimiter(maxAttempts, windowMs)
  /\ managerInterval = "null"
  /\ destroyed = [rateLimiter |-> 0, sessionManager |-> 0]
  /\ parserCall \in {[input |-> input] : input \in ParserInputs}
  /\ unswept = <<>>
  /\ everAdmitted = [p \in PhoneNumbers |-> <<>>]
  /\ Initialized(<<Food, Salary>>, <<Cash, Bank>>, "ok")

\* the call returns
ParseTransactionDetails ==
  /\ parserCall # Null
  /\ "output" \notin DOMAIN parserCall
  /\ parserCall' = [input |-> parserCall.input,
                    output |-> parseTransactionDetails(parserCall.input)]
  /\ UNCHANGED <<sessions, botVars, pending, reply, now, limiterVars,
                 managerSessions, allowedPhoneNumbers, step, limiter,
                 managerInterval, destroyed, twinVars>>

NextParser == ParseTransactionDetails

SpecParser == InitParser /\ [][NextParser]_vars

-----------------------------------------------------------------------------
(* index.ts: the messages.upsert handler                                   *)

IndexMessages == {<<>>, mNew, mAdd, mAddWord, mOne, mCancel}

\* a faulty handler: the message goes to the bot whether or not it is ready
MessagesUpsertUnready(sender, text, apiOk) ==
  IF ~isAuthorized(allowedPhoneNumbers, phoneNumber(sender))
  THEN /\ reply' = Null
       /\ UNCHANGED <<sessions, botVars, pending, now, limiterVars,
                      managerSessions, allowedPhoneNumbers, step, unitVars>>
  ELSE \E a \in {isAllowed(userAttempts, phoneNumber(sender), now)} :
         /\ userAttempts' = a.userAttempts
         /\ result' = [op |-> "isAllowed", userId |-> phoneNumber(sender),
                       value |-> a.value]
         /\ admitted' = IF a.value
                        THEN [admitted EXCEPT ![phoneNumber(sender)] = Append(@, now)]
                        ELSE admitted
         /\ IF ~a.value
            THEN /\ reply' = [to |-> sender, kind |-> "tooManyRequests",
                              remaining |-> getRemaining(a.userAttempts,
                                                         phoneNumber(sender), now)]
                 /\ UNCHANGED <<sessions, pending>>
            ELSE IF text = <<>>
            THEN /\ reply' = Null
                 /\ UNCHANGED <<sessions, pending>>
            ELSE BotStep(sender, text, apiOk)
         /\ UNCHANGED <<botVars, now, managerSessions, allowedPhoneNumbers, step,
                 unitVars>>

\* a faulty handler: the rate limiter is asked, and its answer is ignored
MessagesUpsertUnlimited(sender, text, apiOk) ==
  IF ~isAuthorized(allowedPhoneNumbers, phoneNumber(sender))
  THEN /\ reply' = Null
       /\ UNCHANGED <<sessions, botVars, pending, now, limiterVars,
                      managerSessions, allowedPhoneNumbers, step, unitVars>>
  ELSE \E a \in {isAllowed(userAttempts, phoneNumber(sender), now)} :
         /\ userAttempts' = a.userAttempts
         /\ result' = [op |-> "isAllowed", userId |-> phoneNumber(sender),
                       value |-> a.value]
         /\ admitted' = IF a.value
                        THEN [admitted EXCEPT ![phoneNumber(sender)] = Append(@, now)]
                        ELSE admitted
         /\ IF text = <<>>
            THEN /\ reply' = Null
                 /\ UNCHANGED <<sessions, pending>>
            ELSE IF ~botReady
            THEN /\ reply' = [to |-> sender, kind |-> "notConfigured"]
                 /\ UNCHANGED <<sessions, pending>>
            ELSE BotStep(sender, text, apiOk)
         /\ UNCHANGED <<botVars, now, managerSessions, allowedPhoneNumbers, step,
                 unitVars>>

\* one message of the event, from the allow-list check to the reply
MessagesUpsert(sender, text, apiOk) ==
  IF ~isAuthorized(allowedPhoneNumbers, phoneNumber(sender))
  THEN /\ reply' = Null
       /\ UNCHANGED <<sessions, botVars, pending, now, limiterVars,
                      managerSessions, allowedPhoneNumbers, step, unitVars>>
  ELSE \E a \in {isAllowed(userAttempts, phoneNumber(sender), now)} :
         /\ userAttempts' = a.userAttempts
         /\ result' = [op |-> "isAllowed", userId |-> phoneNumber(sender),
                       value |-> a.value]
         /\ admitted' = IF a.value
                        THEN [admitted EXCEPT ![phoneNumber(sender)] = Append(@, now)]
                        ELSE admitted
         /\ IF ~a.value
            THEN /\ reply' = [to |-> sender, kind |-> "tooManyRequests",
                              remaining |-> getRemaining(a.userAttempts,
                                                         phoneNumber(sender), now)]
                 /\ UNCHANGED <<sessions, pending>>
            ELSE IF text = <<>>
            THEN /\ reply' = Null
                 /\ UNCHANGED <<sessions, pending>>
            ELSE IF ~botReady
            THEN /\ reply' = [to |-> sender, kind |-> "notConfigured"]
                 /\ UNCHANGED <<sessions, pending>>
            ELSE BotStep(sender, text, apiOk)
         /\ UNCHANGED <<botVars, now, managerSessions, allowedPhoneNumbers, step,
                 unitVars>>

InitIndex ==
  /\ sessions = <<>>
  /\ pending = <<>>
  /\ reply = Null
  /\ now = 0
  /\ userAttempts = <<>>
  /\ result = Null
  /\ admitted = [p \in PhoneNumbers |-> <<>>]
  /\ managerSessions = <<>>
  /\ allowedPhoneNumbers \in {<<>>, <<"p1">>}
  /\ step = [u \in Users |-> 0]
  /\ InitUnits
  /\ \E outcome \in InitOutcomes :
       Initialized(<<Food, Salary>>, <<Cash, Bank>>, outcome)

NextIndex ==
  \/ \E u \in Users, m \in IndexMessages : MessagesUpsert(u, m, TRUE)
  \/ Tick

SpecIndex == InitIndex /\ [][NextIndex]_vars

\* the handler under bursts of messages: the clock moves a whole rate-limiter
\* window at a time, so the attempts of a burst share their instant
WindowPasses ==
  /\ now + windowMs <= MaxTime
  /\ now' = now + windowMs
  /\ reply' = Null
  /\ result' = Null
  /\ admitted' = [p \in PhoneNumbers |->
                    SelectSeq(admitted[p], LAMBDA x : (now + windowMs) - x < windowMs)]
  /\ UNCHANGED <<sessions, botVars, pending, userAttempts, managerSessions,
                 allowedPhoneNumbers, step, unitVars>>

NextBurst ==
  \/ \E u \in Users, m \in IndexMessages : MessagesUpsert(u, m, TRUE)
  \/ WindowPasses

SpecBurst == InitIndex /\ [][NextBurst]_vars

-----------------------------------------------------------------------------
(* Two senders whose messages interleave, from the handler to the reply    *)

InterleavedMessages == {mNew, mOne, mCoffee, mCancel}

InitInterleaved ==
  /\ InitIndex
  /\ botReady
  /\ allowedPhoneNumbers = <<>>

NextInterleaved ==
  \/ \E u \in Users, m \in InterleavedMessages : MessagesUpsert(u, m, TRUE)
  \/ Returning
  \/ WindowPasses

SpecInterleaved == InitInterleaved /\ [][NextInterleaved]_vars

-----------------------------------------------------------------------------
(* The scenario of the README: new, 1, 1, "25.50 Coffee", 1                *)

Script == <<mNew, mOne, mOne, mCoffee, mOne>>

InitE2E ==
  /\ Init
  /\ botReady
  /\ Len(accounts) >= 1
  /\ Len(categories) >= 1

\* the identity sends the next message of the script
ScriptStep(u) ==
  /\ step[u] < Len(Script)
  /\ botReady
  /\ BotStep(u, Script[step[u] + 1], TRUE)
  /\ step' = [step EXCEPT ![u] = @ + 1]
  /\ UNCHANGED <<botVars, now, limiterVars, managerSessions, allowedPhoneNumbers,
                 unitVars>>

NextE2E ==
  \/ \E u \in Users : ScriptStep(u)
  \/ Returning

SpecE2E == InitE2E /\ [][NextE2E]_vars

-----------------------------------------------------------------------------
(* Properties of the conversation engine (Spec)                            *)

\* C1: in SELECT_CATEGORY, for every category list and every N, replying with
\* the number N shown next to a category in the rendered list (the expense
\* entries numbered first, the income entries after them) and replying with
\* that category's name submit the same category id.
C1_NumberAndNameSubmitSameCategory ==
  \A u \in DOMAIN sessions :
    sessions[u].state = "SELECT_CATEGORY" =>
      \A N \in 1..Len(ListedCategories(categories)) :
        handleSelectCategory(sessions, u, Digits(N), now, categories, accounts)
            .call.params.category_id
          = handleSelectCategory(sessions, u, ListedCategories(categories)[N].name,
                                 now, categories, accounts)
              .call.params.category_id

\* C2: when the awaited createTransaction call of a category selection
\* succeeds, the session of its identity is reset to a fresh IDLE session
\* (no transactionType, accountId, amount or name); when it fails, the
\* attempt leaves every session exactly as it was: neither the selection
\* that issues the call nor the failure changes the session map, so the
\* session is still in SELECT_CATEGORY with its answers.
C2_SuccessResetsFailureKeeps ==
  [][/\ \A i \in 1..Len(pending) :
          /\ CreateTransactionReturns(i, TRUE) =>
               /\ sessions'[pending[i].userId] = FreshSession(now)
               /\ reply'.kind = "confirmation"
          /\ CreateTransactionReturns(i, FALSE) =>
               /\ sessions' = sessions
               /\ reply'.kind = "submitFailed"
     /\ Len(pending') > Len(pending) =>
          /\ sessions' = sessions
          /\ sessions[pending'[Len(pending')].userId].state = "SELECT_CATEGORY"
    ]_vars

\* C2: a failed submission has been answered and the session still is in
\* SELECT_CATEGORY with the answers given so far
C2_FailedAttemptKeepsSession ==
  /\ reply # Null
  /\ reply.kind = "submitFailed"
  /\ reply.to \in DOMAIN sessions
  /\ sessions[reply.to].state = "SELECT_CATEGORY"
  /\ {"transactionType", "accountId", "amount", "name"} \subseteq DOMAIN sessions[reply.to]

\* C3: every createTransaction call carries the amount stored by
\* ENTER_DETAILS, negative when the transactionType chosen in SELECT_TYPE is
\* expense and positive when it is income, and its nature is that
\* transactionType.
C3_AmountSignedByType ==
  [][Len(pending') > Len(pending) =>
       LET call == pending'[Len(pending')]
           session == sessions[call.userId]
       IN  /\ session.transactionType \in {"expense", "income"}
           /\ session.amount > 0
           /\ call.params.amount =
                IF session.transactionType = "expense"
                THEN 0 - session.amount ELSE session.amount
           /\ call.params.nature = session.transactionType
    ]_vars

\* C3: an expense of 25.50 and an income of 7 have been submitted
C3_SignedCallIssued ==
  \E i \in 1..Len(pending) :
    \/ pending[i].params.nature = "expense" /\ pending[i].params.amount = -2550
    \/ pending[i].params.nature = "income" /\ pending[i].params.amount = 700

\* C4: in every session state, a message that is cancel or /cancel after
\* trimming and lower-casing leaves a fresh IDLE session (no amount, name,
\* accountId or transactionType), is answered with the cancellation notice and
\* runs no per-state handler: no call is issued.
C4_CancelFromEveryState ==
  [][\A m \in {mCancel, mSlashCancel} :
       HandleMessage("u1", m, TRUE) =>
         /\ sessions'["u1"] = FreshSession(now)
         /\ reply' = [to |-> "u1", kind |-> "cancelled"]
         /\ pending' = pending
    ]_vars

\* C4: a conversation that went as far as a category selection was cancelled
C4_CancelledAfterSelection ==
  /\ reply = [to |-> "u1", kind |-> "cancelled"]
  /\ pending # <<>>
  /\ sessions["u1"] = FreshSession(now)

\* C11: a session leaves IDLE only when new, add or /add (trimmed, any
\* letter case) is handled with a non-empty account cache, and then it is in
\* SELECT_TYPE and the reply is the expense/income prompt; with no account
\* cached that input is answered with the no-accounts message and the session
\* stays IDLE; every other message handled in IDLE leaves the session in IDLE.
C11_LeavesIdleOnlyOnNew ==
  /\ [](botReady =>
          \A u \in Users :
            (u \in DOMAIN sessions => sessions[u].state = "IDLE") =>
              /\ \A m \in {mNew, mAdd, mAddWord} :
                   \A r \in {handleMessage(sessions, u, m, now, categories, accounts, TRUE)} :
                     /\ r.call = Null
                     /\ IF Len(accounts) = 0
                        THEN /\ r.sessions[u].state = "IDLE"
                             /\ r.reply = [kind |-> "noAccounts"]
                        ELSE /\ r.sessions[u].state = "SELECT_TYPE"
                             /\ r.reply = [kind |-> "typePrompt"]
              /\ \A m \in Messages \ {mNew, mAdd, mAddWord}, apiOk \in BOOLEAN :
                   \A r \in {handleMessage(sessions, u, m, now, categories, accounts, apiOk)} :
                     /\ r.call = Null
                     /\ r.sessions[u].state = "IDLE")
  /\ [][\A u \in Users :
          (/\ u \in DOMAIN sessions => sessions[u].state = "IDLE"
           /\ u \in DOMAIN sessions'
           /\ sessions'[u].state # "IDLE") =>
            /\ Len(accounts) > 0
            /\ sessions'[u].state = "SELECT_TYPE"
            /\ reply' = [to |-> u, kind |-> "typePrompt"]
            /\ \E m \in {mNew, mAdd, mAddWord} : HandleMessage(u, m, TRUE)
      ]_vars

\* C11: with no account cached, a new transaction was refused in IDLE
C11_RefusedWithoutAccounts ==
  /\ accounts = <<>>
  /\ reply = [to |-> "u1", kind |-> "noAccounts"]
  /\ sessions["u1"].state = "IDLE"

\* C12: in SELECT_TYPE the messages 1, expense and expenses give the same
\* session (SELECT_ACCOUNT, transactionType expense) and the same reply, the
\* messages 2 and income give the same session (SELECT_ACCOUNT,
\* transactionType income) and the same reply, and every other message that
\* is no global command leaves the session map as it is, in SELECT_TYPE.
C12_TypeAliases ==
  botReady =>
    \A u \in DOMAIN sessions :
      sessions[u].state = "SELECT_TYPE" =>
        /\ \A m \in {mExpense, mExpenses} :
             handleMessage(sessions, u, m, now, categories, accounts, TRUE)
               = handleMessage(sessions, u, mOne, now, categories, accounts, TRUE)
        /\ handleMessage(sessions, u, mOne, now, categories, accounts, TRUE)
             .sessions[u].state = "SELECT_ACCOUNT"
        /\ handleMessage(sessions, u, mOne, now, categories, accounts, TRUE)
             .sessions[u].transactionType = "expense"
        /\ handleMessage(sessions, u, mIncome, now, categories, accounts, TRUE)
             = handleMessage(sessions, u, mTwo, now, categories, accounts, TRUE)
        /\ handleMessage(sessions, u, mTwo, now, categories, accounts, TRUE)
             .sessions[u].state = "SELECT_ACCOUNT"
        /\ handleMessage(sessions, u, mTwo, now, categories, accounts, TRUE)
             .sessions[u].transactionType = "income"
        /\ \A m \in Messages \ {mOne, mExpense, mExpenses, mTwo, mIncome} :
             (~isCancel(lowered(m)) /\ ~isBack(lowered(m)) /\ ~isHelp(lowered(m))) =>
               /\ handleMessage(sessions, u, m, now, categories, accounts, TRUE)
                    .sessions = sessions
               /\ handleMessage(sessions, u, m, now, categories, accounts, TRUE)
                    .reply = [kind |-> "typeReprompt"]

\* C12: a message that is no alias was answered in SELECT_TYPE, and the
\* session still waits for the type
C12_TypeAskedAgain ==
  /\ reply = [to |-> "u1", kind |-> "typeReprompt"]
  /\ sessions["u1"].state = "SELECT_TYPE"

\* C13: in SELECT_ACCOUNT, a message that is a 1-based index within the
\* account list of the session (as parseInt reads it), or else equals the
\* name of an account in any letter case, stores the id of that account as
\* accountId and moves to ENTER_DETAILS, keeping transactionType; a message
\* that resolves to no account leaves the session map unchanged, in
\* SELECT_ACCOUNT, and is answered with the invalid-selection text.
C13_AccountByIndexOrName ==
  botReady =>
    \A u \in DOMAIN sessions :
      sessions[u].state = "SELECT_ACCOUNT" =>
        \A m \in Messages :
          (~isCancel(lowered(m)) /\ ~isBack(lowered(m)) /\ ~isHelp(lowered(m))) =>
            \A r \in {handleMessage(sessions, u, m, now, categories, accounts, TRUE)} :
              LET list == sessions[u].accounts
                  n == parseIntOf(m)
                  named == {i \in 1..Len(list) : ToLowerCase(list[i].name) = lowered(m)}
                  Stored(account) ==
                    /\ r.sessions[u].state = "ENTER_DETAILS"
                    /\ r.sessions[u].accountId = account.id
                    /\ r.sessions[u].transactionType = sessions[u].transactionType
                    /\ r.reply.kind = "detailsPrompt"
                    /\ r.reply.account = account.name
              IN  /\ r.call = Null
                  /\ IF ~n.nan /\ n.val >= 1 /\ n.val <= Len(list)
                     THEN Stored(list[n.val])
                     ELSE IF named # {}
                     THEN \E i \in named : (\A j \in named : i <= j) /\ Stored(list[i])
                     ELSE /\ r.sessions = sessions
                          /\ r.reply = [kind |-> "invalidSelection"]

\* C13: the second account was chosen and the session waits for the details
C13_SecondAccountStored ==
  /\ "u1" \in DOMAIN sessions
  /\ sessions["u1"].state = "ENTER_DETAILS"
  /\ sessions["u1"].accountId = Bank.id
  /\ reply # Null
  /\ reply.kind = "detailsPrompt"

\* C14: in ENTER_DETAILS, a text the parser accepts ("25.50 Coffee" is 25.50
\* and Coffee, "Gas $-7" is 7 and Gas) stores that amount and name and moves
\* to SELECT_CATEGORY, keeping transactionType and accountId, with the
\* category list as reply; every other text that is no global command leaves
\* the session map unchanged, in ENTER_DETAILS, and is answered with the
\* format hint.
C14_DetailsStoredOrHint ==
  botReady =>
    \A u \in DOMAIN sessions :
      sessions[u].state = "ENTER_DETAILS" =>
        \A m \in Messages :
          (~isCancel(lowered(m)) /\ ~isBack(lowered(m)) /\ ~isHelp(lowered(m))) =>
            \A r \in {handleMessage(sessions, u, m, now, categories, accounts, TRUE)} :
              LET Stored(cents, text) ==
                    /\ r.sessions[u].state = "SELECT_CATEGORY"
                    /\ r.sessions[u].amount = cents
                    /\ r.sessions[u].name = text
                    /\ r.sessions[u].transactionType = sessions[u].transactionType
                    /\ r.sessions[u].accountId = sessions[u].accountId
                    /\ r.reply.kind = "categoriesList"
              IN  /\ r.call = Null
                  /\ IF m = mCoffee THEN Stored(2550, <<"C","o","f","f","e","e">>)
                     ELSE IF m = mGas THEN Stored(700, <<"G","a","s">>)
                     ELSE /\ r.sessions = sessions
                          /\ r.reply = [kind |-> "parseError"]

\* C14: a text the parser rejects was answered with the format hint, and the
\* session still waits for the details with its type and account
C14_HintKeepsSession ==
  /\ reply = [to |-> "u1", kind |-> "parseError"]
  /\ sessions["u1"].state = "ENTER_DETAILS"
  /\ {"transactionType", "accountId"} \subseteq DOMAIN sessions["u1"]

\* C15: in every session state, a message that is back, /back or menu after
\* trimming and lower-casing leaves a fresh IDLE session with no flow field
\* and is answered with the main menu, issuing no call; the result does not
\* depend on the session before, so handling the command a second time gives
\* the result of handling it once.
C15_BackFromEveryState ==
  [][\A m \in {mBack, mSlashBack, mMenu} :
       HandleMessage("u1", m, TRUE) =>
         /\ sessions'["u1"] = FreshSession(now)
         /\ reply' = [to |-> "u1", kind |-> "mainMenu"]
         /\ pending' = pending
         /\ handleMessage(sessions', "u1", m, now, categories, accounts, TRUE)
              = [sessions |-> sessions', reply |-> getMainMenu, call |-> Null]
    ]_vars

\* C15: the main menu was shown on a fresh session while the call of a
\* category selection is awaited
C15_BackAfterSelection ==
  /\ reply = [to |-> "u1", kind |-> "mainMenu"]
  /\ pending # <<>>
  /\ sessions["u1"] = FreshSession(now)

\* C16: in every session state, a message that is help or /help after
\* trimming and lower-casing is answered with the help text and leaves the
\* session as it is (state, transactionType, accountId, amount and name; an
\* identity without a session gets the fresh IDLE one), issuing no call.
C16_HelpKeepsSession ==
  [][\A m \in {mHelp, mHelpWord} :
       HandleMessage("u1", m, TRUE) =>
         /\ reply' = [to |-> "u1", kind |-> "help"]
         /\ pending' = pending
         /\ IF "u1" \in DOMAIN sessions THEN sessions' = sessions
            ELSE sessions' = ("u1" :> FreshSession(now))
    ]_vars

\* C16: help was shown in the middle of a flow, which keeps its answers
C16_HelpInSelectCategory ==
  /\ reply = [to |-> "u1", kind |-> "help"]
  /\ sessions["u1"].state = "SELECT_CATEGORY"
  /\ {"transactionType", "accountId", "amount", "name"} \subseteq DOMAIN sessions["u1"]

-----------------------------------------------------------------------------
(* Properties across reconnections (SpecReconnect)                         *)

\* C5: the selection in SELECT_ACCOUNT and in SELECT_CATEGORY resolves the
\* number and the name against the list stored in the session when the list
\* was shown, not against the lists the engine holds now: whatever the reply,
\* the entry chosen is the one chosen from the stored list.
C5_SelectionAgainstSnapshot ==
  botReady => \A u \in DOMAIN sessions : \A m \in FlowMessages :
    /\ sessions[u].state = "SELECT_ACCOUNT" =>
         selectAccount(sessions[u], accounts, m) = Select(sessions[u].accounts, m)
    /\ sessions[u].state = "SELECT_CATEGORY" =>
         selectCategory(sessions[u], categories, m) = Select(sessions[u].categories, m)

-----------------------------------------------------------------------------
(* Properties of abandoned conversations (SpecExpiry)                      *)

\* C6: the periodic expiry sweep destroys every session the engine holds for
\* an identity that has been inactive for longer than the session timeout:
\* after the sweep, the identity has no session or a fresh IDLE one, so that
\* its next message is handled from IDLE with no answer kept.
C6_SweepDestroysInactiveSessions ==
  [][ClearExpiredSessions =>
       \A u \in DOMAIN sessions :
         now - sessions[u].lastActivityAt > sessionTimeoutMs =>
           \/ u \notin DOMAIN sessions'
           \/ DOMAIN sessions'[u] = {"state", "createdAt", "lastActivityAt"}
                /\ sessions'[u].state = "IDLE"
    ]_vars

-----------------------------------------------------------------------------
(* Properties of the RateLimiter (SpecLimiter)                             *)

\* the step is a call of isAllowed(id): no other step leaves its result
IsAllowedReturned(id) ==
  /\ result' # Null
  /\ result'.op = "isAllowed"
  /\ result'.userId = id

\* C7: isAllowed(identity) returns true exactly when fewer than maxAttempts
\* admitted attempts of the identity lie inside the trailing window
\* (now - t < windowMs) at the time of the call; so maxAttempts calls at one
\* instant are admitted and the next one is not.
C7_AdmitsIffUnderBudget ==
  [][\A id \in PhoneNumbers :
       IsAllowedReturned(id) =>
         (result'.value <=>
            Cardinality({i \in 1..Len(admitted[id]) : now - admitted[id][i] < windowMs})
              < maxAttempts)
    ]_vars

\* C7: maxAttempts calls at this instant were admitted and one more was not
C7_BudgetSpentAtOneInstant ==
  /\ result # Null
  /\ result.op = "isAllowed"
  /\ ~result.value
  /\ Len(admitted[result.userId]) = maxAttempts
  /\ \A i \in 1..maxAttempts : admitted[result.userId][i] = now

\* C8: a rejected isAllowed call is not recorded: it leaves the attempt
\* history unchanged; and an identity is admitted as soon as its oldest
\* recorded attempt is windowMs old, however many calls were rejected before.
C8_RejectedNotRecorded ==
  [][\A id \in PhoneNumbers :
       IsAllowedReturned(id) =>
         /\ ~result'.value => userAttempts' = userAttempts
         /\ (/\ id \in DOMAIN userAttempts
             /\ userAttempts[id] # <<>>
             /\ now - userAttempts[id][1] >= windowMs) => result'.value
         /\ Len(attemptsOf(userAttempts', id)) <= maxAttempts
    ]_vars

\* C8: a call was rejected after the instant of the oldest attempt, and the
\* history holds the admitted attempts only
C8_RejectedWhileBlocked ==
  /\ result # Null
  /\ result.op = "isAllowed"
  /\ ~result.value
  /\ userAttempts[result.userId] = admitted[result.userId]
  /\ userAttempts[result.userId][1] < now

\* C19: getRemaining(identity) returns maxAttempts minus the number of the
\* identity's recorded attempts inside the window, which is never negative,
\* and leaves the recorded attempts unchanged; after an admitted isAllowed
\* call it is exactly one lower than before the call at the same instant.
C19_RemainingCountsWindow ==
  [][\A id \in PhoneNumbers :
       /\ (/\ result' # Null
           /\ result'.op = "getRemaining"
           /\ result'.userId = id) =>
            /\ result'.value =
                 maxAttempts
                   - Cardinality({i \in 1..Len(attemptsOf(userAttempts, id)) :
                                    now - attemptsOf(userAttempts, id)[i] < windowMs})
            /\ result'.value >= 0
            /\ userAttempts' = userAttempts
       /\ (IsAllowedReturned(id) /\ result'.value) =>
            getRemaining(userAttempts', id, now) = getRemaining(userAttempts, id, now) - 1
    ]_vars

\* C19: the whole budget is reported although attempts are recorded: they
\* are all outside the window
C19_ExpiredAttemptsNotCounted ==
  /\ result # Null
  /\ result.op = "getRemaining"
  /\ result.value = maxAttempts
  /\ result.userId \in DOMAIN userAttempts
  /\ Len(userAttempts[result.userId]) = maxAttempts

\* C20: reset(identity) clears the attempt history of that identity, so that
\* its next isAllowed call is admitted and getRemaining returns maxAttempts,
\* and leaves the history of every other identity unchanged; resetAll()
\* clears the history of every identity in the same way.
C20_ResetClearsOneIdentity ==
  [][/\ \A id \in PhoneNumbers :
          (result' = [op |-> "reset", userId |-> id]) =>
            /\ id \notin DOMAIN userAttempts'
            /\ isAllowed(userAttempts', id, now).value
            /\ getRemaining(userAttempts', id, now) = maxAttempts
            /\ \A other \in PhoneNumbers \ {id} :
                 /\ other \in DOMAIN userAttempts' <=> other \in DOMAIN userAttempts
                 /\ attemptsOf(userAttempts', other) = attemptsOf(userAttempts, other)
     /\ (result' = [op |-> "resetAll"]) =>
          \A id \in PhoneNumbers :
            /\ id \notin DOMAIN userAttempts'
            /\ isAllowed(userAttempts', id, now).value
            /\ getRemaining(userAttempts', id, now) = maxAttempts
    ]_vars

\* C20: one identity was reset while the other one is blocked with its whole
\* history inside the window
C20_ResetBesideBlocked ==
  /\ result # Null
  /\ result.op = "reset"
  /\ result.userId \notin DOMAIN userAttempts
  /\ \E other \in DOMAIN userAttempts :
       /\ ~isAllowed(userAttempts, other, now).value
       /\ userAttempts[other] = admitted[other]

-----------------------------------------------------------------------------
(* Properties of the messages.upsert handler (SpecIndex)                   *)

\* C9: only the phone numbers on the allow list can use the bot: a message
\* from a number that is not on the list is dropped before the rate limiter,
\* reaches no handler, changes no session and gets no reply; with an empty
\* allow list every message is ignored.
C9_OnlyAllowListedNumbers ==
  [][\A u \in Users, m \in IndexMessages :
       (MessagesUpsert(u, m, TRUE)
          /\ ~includes(allowedPhoneNumbers, phoneNumber(u))) =>
         /\ reply' = Null
         /\ UNCHANGED <<sessions, pending, userAttempts>>
    ]_vars

\* C17: when the fetch of the accounts or of the categories failed at start,
\* the bot stays up without being ready: every new, add or /add that passes
\* the allow list and the rate limiter is answered with the
\* configuration-error text, no session is created or leaves IDLE, and no
\* createTransaction call is issued.
C17_DegradedRefusesEntry ==
  [][~botReady =>
       /\ sessions = <<>> /\ sessions' = <<>>
       /\ pending = <<>> /\ pending' = <<>>
       /\ \A u \in Users, m \in {mNew, mAdd, mAddWord} :
            (/\ result' # Null
             /\ result'.value
             /\ result'.userId = phoneNumber(u)
             /\ isAuthorized(allowedPhoneNumbers, phoneNumber(u))
             /\ MessagesUpsert(u, m, TRUE)) =>
              reply' = [to |-> u, kind |-> "notConfigured"]
    ]_vars

\* C17: a message was answered with the configuration-error text after a
\* failed start, and no session exists
C17_AnsweredNotConfigured ==
  /\ ~botReady
  /\ reply # Null
  /\ reply.kind = "notConfigured"
  /\ sessions = <<>>
  /\ pending = <<>>

\* C18: every message passes the rate limiter before the bot: a message for
\* which isAllowed returns false does not reach handleMessage, so that it
\* changes no session and issues no call, and its sender is answered with the
\* too-many-requests text; and a step that changes a session or issues a call
\* is one whose isAllowed call returned true.
C18_RateLimiterBeforeBot ==
  [][/\ \A u \in Users, m \in IndexMessages :
          (/\ result' # Null
           /\ ~result'.value
           /\ result'.userId = phoneNumber(u)
           /\ isAuthorized(allowedPhoneNumbers, phoneNumber(u))
           /\ MessagesUpsert(u, m, TRUE)) =>
            /\ sessions' = sessions
            /\ pending' = pending
            /\ reply' # Null
            /\ reply'.to = u
            /\ reply'.kind = "tooManyRequests"
     /\ (sessions' # sessions \/ pending' # pending) =>
          /\ result' # Null
          /\ result'.op = "isAllowed"
          /\ result'.value
          /\ now \in {userAttempts'[result'.userId][i] :
                        i \in 1..Len(userAttempts'[result'.userId])}
    ]_vars

\* C18: a message of an identity in the middle of a flow was rejected by the
\* rate limiter and answered with the too-many-requests text
C18_RejectedInFlow ==
  /\ botReady
  /\ reply # Null
  /\ reply.kind = "tooManyRequests"
  /\ result # Null
  /\ ~result.value
  /\ reply.to \in DOMAIN sessions
  /\ sessions[reply.to].state # "IDLE"

-----------------------------------------------------------------------------
(* Properties of the scripted scenario (SpecE2E)                           *)

\* C10: from IDLE with an account and a category cached, the messages new, 1,
\* 1, "25.50 Coffee", 1 pass through SELECT_TYPE, SELECT_ACCOUNT,
\* ENTER_DETAILS and SELECT_CATEGORY in this order, submit a transaction of
\* -25.50 named Coffee with the id of the first account and the id of the
\* first listed category, are answered with a confirmation naming that
\* category and that account, and leave the session in IDLE.
C10_ScriptSubmitsFirstListed ==
  /\ \A u \in Users :
       /\ step[u] = 1 => sessions[u].state = "SELECT_TYPE"
       /\ step[u] = 2 => sessions[u].state = "SELECT_ACCOUNT"
       /\ step[u] = 3 => sessions[u].state = "ENTER_DETAILS"
       /\ step[u] = 4 => sessions[u].state = "SELECT_CATEGORY"
  /\ \A i \in 1..Len(pending) :
       /\ pending[i].params.amount = -2550
       /\ pending[i].params.name = <<"C","o","f","f","e","e">>
       /\ pending[i].params.account_id = accounts[1].id
       /\ pending[i].params.category_id = ListedCategories(categories)[1].id
  /\ (reply # Null /\ reply.kind = "confirmation") =>
       /\ reply.sign = "-"
       /\ reply.amount = 2550
       /\ reply.name = <<"C","o","f","f","e","e">>
       /\ reply.account = accounts[1].name
       /\ reply.category = ListedCategories(categories)[1].name
       /\ sessions[reply.to].state = "IDLE"

-----------------------------------------------------------------------------
(* Properties of the RateLimiter's construction (SpecConstruct)            *)

\* C21: a RateLimiter is never constructed with maxAttempts < 1 or with
\* windowMs <= 0: every limiter that exists has maxAttempts >= 1 and
\* windowMs > 0.
C21_ConstructionRejectsBadArguments ==
  limiter # Null => (limiter.maxAttempts >= 1 /\ limiter.windowMs > 0)

-----------------------------------------------------------------------------
(* Properties of shutdown (SpecShutdown)                                   *)

\* C22: once destroy() has been called on the rate limiter, its sweep cannot
\* run any more and its attempt map is empty; once destroy() has been called
\* on the session manager, its sweep cannot run any more and its session map
\* is empty; and a further destroy() call on either changes neither the maps
\* nor the intervals.
C22_DestroyStopsSweepAndEmpties ==
  /\ [](/\ destroyed.rateLimiter > 0 =>
              (~ENABLED Cleanup /\ userAttempts = <<>>)
        /\ destroyed.sessionManager > 0 =>
              (~ENABLED ClearExpiredSessions /\ managerSessions = <<>>))
  /\ [][(\/ destroyed.rateLimiter > 0 /\ destroyed'.rateLimiter > destroyed.rateLimiter
         \/ destroyed.sessionManager > 0
              /\ destroyed'.sessionManager > destroyed.sessionManager) =>
          UNCHANGED <<userAttempts, limiter, managerSessions, managerInterval>>
      ]_vars

\* C22: both objects were destroyed twice, each after it had held an entry,
\* and the clock is past the time both sweeps would be due
C22_DestroyedTwice ==
  /\ destroyed.rateLimiter = 2
  /\ destroyed.sessionManager = 2
  /\ now >= windowMs * 2
  /\ now >= sessionTimeoutMs

-----------------------------------------------------------------------------
(* The parser                                                              *)

\* parseTransactionDetails has returned to its caller
ParserReturned == parserCall # Null /\ "output" \in DOMAIN parserCall

\* C23: when the parser accepts an input, the amount is the absolute value of
\* the number written and the name is the remaining free text, trimmed,
\* non-empty and at most 255 characters long, in the amount-first layout and
\* in the name-first layout alike.
C23_AmountAbsoluteNameTrimmed ==
  ParserReturned =>
    /\ parserCall.output # Null =>
         /\ parserCall.output.amount >= 0
         /\ Len(parserCall.output.name) > 0
         /\ Len(parserCall.output.name) <= maxNameLength
         /\ Trim(parserCall.output.name) = parserCall.output.name
    /\ \A tok \in NumberTokens, name \in FreeTexts, sep \in Seps, pad \in Pads :
         /\ parserCall.input = AmountFirstText(tok.text, sep, name.text, pad)
              => parserCall.output =
                   [amount |-> Abs(tok.cents), name |-> name.clean]
         /\ parserCall.input = NameFirstText(name.text, sep, tok.text, pad)
              => parserCall.output =
                   [amount |-> Abs(tok.cents), name |-> name.clean]

\* "Gas Co  -100.25" read as 100.25 spent on "Gas Co"
C23_NegativeNameFirstAccepted ==
  /\ ParserReturned
  /\ parserCall.input =
       NameFirstText(<<"G","a","s"," ","C","o">>, <<" ", " ">>,
                     <<"-","1","0","0",".","2","5">>, <<>>)
  /\ parserCall.output = [amount |-> 10025, name |-> <<"G","a","s"," ","C","o">>]

\* C24: the parser returns none for an empty or all-white-space input, for an
\* input longer than 500 characters once trimmed, for an input that is empty
\* once < > " ' and the backtick are stripped, and for an input with no amount
\* token at either end; an input that holds those characters beside a
\* transaction is accepted with the characters removed from the name.
C24_RejectedInputsAndStrippedCharacters ==
  ParserReturned =>
    /\ parserCall.input \in EmptyInputs \cup TooLongInputs
                              \cup StrippedEmptyInputs \cup NoAmountInputs
         => parserCall.output = Null
    /\ parserCall.input \in LongestInputs
         => parserCall.output =
              [amount |-> 500, name |-> [i \in 1..maxNameLength |-> "x"]]
    /\ \A tok \in NumberTokens, name \in FreeTexts, sep \in Seps, pad \in Pads :
         (/\ name.text # name.clean
          /\ parserCall.input \in
               {AmountFirstText(tok.text, sep, name.text, pad),
                NameFirstText(name.text, sep, tok.text, pad)})
           => /\ parserCall.output # Null
              /\ parserCall.output.name = name.clean
              /\ \A i \in 1..Len(parserCall.output.name) :
                   parserCall.output.name[i] \notin DangerousChars

\* 501 characters that would be a transaction were they 500 are refused
C24_OneCharacterTooLong ==
  /\ ParserReturned
  /\ parserCall.input = FiveThenLongestName(maxLength + 1)
  /\ parserCall.output = Null

\* the two readings of an input with a number at both ends
AmountFirstReading(tok1, name, tok2) ==
  [amount |-> Abs(tok1.cents), name |-> name.clean \o <<" ">> \o tok2.text]
NameFirstReading(tok1, name, tok2) ==
  [amount |-> Abs(tok2.cents), name |-> tok1.text \o <<" ">> \o name.clean]

\* C25 as stated: an input that can be read both ways, like "100 Coffee 5" or
\* "100 200", is returned in its amount-first reading.
C25_AmountFirstReadingAlways ==
  ParserReturned =>
    /\ \A tok1 \in NumberTokens, tok2 \in NumberTokens,
          name \in FreeTexts \cup LongTexts :
         parserCall.input = BothEndsText(tok1.text, name.text, tok2.text)
           => parserCall.output = AmountFirstReading(tok1, name, tok2)
    /\ \A tok1 \in NumberTokens, tok2 \in NumberTokens :
         parserCall.input = TwoNumbersText(tok1.text, tok2.text)
           => parserCall.output = [amount |-> Abs(tok1.cents), name |-> tok2.text]

\* C25: an input that can be read both ways is returned in its amount-first
\* reading when the text after the leading number is at most 255 characters
\* long; when it is longer, the name-first reading is returned if its name
\* fits, and none otherwise.
C25_AmountFirstReadingWhenNameFits ==
  ParserReturned =>
    /\ \A tok1 \in NumberTokens, tok2 \in NumberTokens,
          name \in FreeTexts \cup LongTexts :
         parserCall.input = BothEndsText(tok1.text, name.text, tok2.text)
           => parserCall.output =
                IF Len(AmountFirstReading(tok1, name, tok2).name) <= maxNameLength
                THEN AmountFirstReading(tok1, name, tok2)
                ELSE IF Len(NameFirstReading(tok1, name, tok2).name) <= maxNameLength
                THEN NameFirstReading(tok1, name, tok2)
                ELSE Null
    /\ \A tok1 \in NumberTokens, tok2 \in NumberTokens :
         parserCall.input = TwoNumbersText(tok1.text, tok2.text)
           => parserCall.output = [amount |-> Abs(tok1.cents), name |-> tok2.text]

\* "5 xxx...x -100.25" with 250 x: the text after the 5 is too long for a
\* name, and the input is read as 100.25 spent on "5 xxx...x"
C25_LongTextReadNameFirst ==
  /\ ParserReturned
  /\ parserCall.input =
       BothEndsText(<<"5">>, [i \in 1..(maxNameLength - 5) |-> "x"],
                    <<"-","1","0","0",".","2","5">>)
  /\ parserCall.output # Null
  /\ parserCall.output.amount = 10025
  /\ Len(parserCall.output.name) = maxNameLength - 3

-----------------------------------------------------------------------------
(* Concurrent messages of one identity                                     *)

\* C26: a message handled in SELECT_CATEGORY that reaches the submission
\* leaves the session as it read it, so the same message dispatched again
\* while the first submission is pending reads the same session and reaches
\* the submission with the same transaction: one flow can submit twice.
C26_SecondMessageSubmitsAgain ==
  \A u \in Users, m \in Messages :
    \A r \in {handleMessage(sessions, u, m, now, categories, accounts, TRUE)} :
      r.call # Null =>
        /\ sessions[u].state = "SELECT_CATEGORY"
        /\ r.sessions = sessions
        /\ handleMessage(r.sessions, u, m, now, categories, accounts, TRUE).call
             = r.call

\* two submissions of the same transaction of u1 are in flight
C26_SameTransactionSubmittedTwice ==
  /\ Len(pending) = 2
  /\ pending[1] = pending[2]
  /\ pending[1].userId = "u1"
  /\ sessions["u1"].state = "SELECT_CATEGORY"

-----------------------------------------------------------------------------
(* The shape of a session                                                  *)

\* the answers a session holds
AnswerFields == {"transactionType", "accountId", "amount", "name"}
AnswersOf(session) == AnswerFields \cap DOMAIN session

\* C27: the store holds one session per identity it has seen, and the state
\* of a session determines the answers it holds: none in IDLE and
\* SELECT_TYPE, transactionType in SELECT_ACCOUNT, transactionType and
\* accountId in ENTER_DETAILS, all four in SELECT_CATEGORY.
C27_StateDeterminesFields ==
  /\ DOMAIN sessions \subseteq Users
  /\ \A u \in DOMAIN sessions :
       \A answers \in {AnswersOf(sessions[u])} :
         CASE sessions[u].state \in {"IDLE", "SELECT_TYPE"} -> answers = {}
           [] sessions[u].state = "SELECT_ACCOUNT" -> answers = {"transactionType"}
           [] sessions[u].state = "ENTER_DETAILS" ->
                answers = {"transactionType", "accountId"}
           [] sessions[u].state = "SELECT_CATEGORY" -> answers = AnswerFields
           [] OTHER -> FALSE

\* u1 is back in SELECT_TYPE after a finished flow while u2 is about to pick
\* a category
C27_SecondFlowBesideOpenFlow ==
  /\ DOMAIN sessions = Users
  /\ sessions["u1"].state = "SELECT_TYPE"
  /\ sessions["u2"].state = "SELECT_CATEGORY"
  /\ reply # Null /\ reply.to = "u1"

-----------------------------------------------------------------------------
(* The way to a submission                                                 *)

\* the state of an identity: a session is created in IDLE on first access
StateOf(sess, u) == IF u \in DOMAIN sess THEN sess[u].state ELSE "IDLE"

\* the steps of a session: to IDLE from anywhere, or one state forward
Forward ==
  {<<"IDLE", "SELECT_TYPE">>, <<"SELECT_TYPE", "SELECT_ACCOUNT">>,
   <<"SELECT_ACCOUNT", "ENTER_DETAILS">>, <<"ENTER_DETAILS", "SELECT_CATEGORY">>}

\* the message is one of the commands handled before the state is looked at
IsCommand(m) == isCancel(lowered(m)) \/ isBack(lowered(m)) \/ isHelp(lowered(m))

\* C28: createTransaction is called only while a message is handled in
\* SELECT_CATEGORY whose text resolves to a category; a session changes state
\* only to IDLE or one step forward along IDLE, SELECT_TYPE, SELECT_ACCOUNT,
\* ENTER_DETAILS, SELECT_CATEGORY, so those transitions precede the call in
\* that order since the last IDLE; a reply in SELECT_CATEGORY that resolves
\* to no category makes no call and leaves the session unchanged.
C28_SubmissionOnlyAtEndOfFlow ==
  /\ [](\A u \in Users, m \in Messages :
          \A r \in {handleMessage(sessions, u, m, now, categories, accounts, TRUE)} :
            /\ r.call # Null =>
                 /\ StateOf(sessions, u) = "SELECT_CATEGORY"
                 /\ ~IsCommand(m)
                 /\ Select(categories, m) # Null
                 /\ r.call.params.category_id = Select(categories, m).item.id
            /\ (/\ StateOf(sessions, u) = "SELECT_CATEGORY"
                /\ ~IsCommand(m)
                /\ Select(categories, m) = Null)
                 => /\ r.call = Null
                    /\ r.sessions = sessions
                    /\ r.reply = [kind |-> "invalidSelection"])
  /\ [][\A u \in Users :
          \/ StateOf(sessions', u) = StateOf(sessions, u)
          \/ StateOf(sessions', u) = "IDLE"
          \/ <<StateOf(sessions, u), StateOf(sessions', u)>> \in Forward]_vars
  /\ [][Len(pending') > Len(pending) =>
          /\ pending' = Append(pending, pending'[Len(pending')])
          /\ StateOf(sessions, pending'[Len(pending')].userId) = "SELECT_CATEGORY"
          /\ sessions' = sessions]_vars

\* u2 answers with a text that names no category while its session waits for
\* one, after u1 has submitted
C28_NoCategoryNoSubmission ==
  /\ reply = [to |-> "u2", kind |-> "invalidSelection"]
  /\ StateOf(sessions, "u2") = "SELECT_CATEGORY"
  /\ Len(pending) = 1
  /\ pending[1].userId = "u1"

-----------------------------------------------------------------------------
(* Two identities do not see each other                                    *)

\* a map cut down to the entry of one key
Only(map, key) == [k \in DOMAIN map \cap {key} |-> map[k]]

\* the createTransaction calls of an identity that are in flight
CallsOf(calls, u) == SelectSeq(calls, LAMBDA call : call.userId = u)

\* a step of the identity: one of its messages goes through the handler, or
\* one of its createTransaction calls returns
StepOf(u) ==
  \/ \E m \in InterleavedMessages : MessagesUpsert(u, m, TRUE)
  \/ \E i \in 1..Len(pending), ok \in BOOLEAN :
       pending[i].userId = u /\ CreateTransactionReturns(i, ok)

\* the step leaves the session, the attempts and the calls of the identity
\* as they were
Untouched(u) ==
  /\ Only(sessions', u) = Only(sessions, u)
  /\ Only(userAttempts', phoneNumber(u)) = Only(userAttempts, phoneNumber(u))
  /\ CallsOf(pending', u) = CallsOf(pending, u)

\* C29: a step of identity A never changes the session, the rate-limit
\* history or the calls of a different identity B, and what B's next message
\* gets (admitted or not, reply, call, session afterwards) is computed from
\* B's own session and history alone: whatever A sends, B's states and replies
\* are those B would get had A sent nothing.
C29_IdentitiesDoNotInterfere ==
  /\ [][\A A \in Users : \A B \in Users \ {A} : StepOf(A) => Untouched(B)]_vars
  /\ [](\A B \in Users, m \in InterleavedMessages :
          /\ \A alone \in {isAllowed(Only(userAttempts, phoneNumber(B)),
                                     phoneNumber(B), now)},
                among \in {isAllowed(userAttempts, phoneNumber(B), now)} :
               /\ alone.value = among.value
               /\ alone.userAttempts = Only(among.userAttempts, phoneNumber(B))
               /\ getRemaining(alone.userAttempts, phoneNumber(B), now)
                    = getRemaining(among.userAttempts, phoneNumber(B), now)
          /\ \A alone \in {handleMessage(Only(sessions, B), B, m, now,
                                         categories, accounts, TRUE)},
                among \in {handleMessage(sessions, B, m, now,
                                         categories, accounts, TRUE)} :
               /\ alone.reply = among.reply
               /\ alone.call = among.call
               /\ alone.sessions = Only(among.sessions, B))

\* u2 has been refused by the rate limiter and u1, in the same window, is
\* about to pick a category
C29_OneRefusedOtherServed ==
  /\ reply # Null
  /\ reply.to = "u2"
  /\ reply.kind = "tooManyRequests"
  /\ StateOf(sessions, "u1") = "SELECT_CATEGORY"
  /\ \E i \in 1..Len(attemptsOf(userAttempts, "p1")) : userAttempts["p1"][i] = now

-----------------------------------------------------------------------------
(* The sweep of the SessionManager                                         *)

\* the sessions whose last activity is more than the timeout before t
Expired(ms, t) == {u \in DOMAIN ms : t - ms[u].lastActivityAt > sessionTimeoutMs}

\* a step that reads or updates the session of u through the manager
Touches(u) ==
  \/ GetOrCreateSession(u)
  \/ u \in DOMAIN managerSessions /\ ManagerGetSession(u)
  \/ \E updates \in ManagerUpdates : ManagerUpdateSession(u, updates)

\* C30: the sweep removes exactly the sessions whose lastActivityAt is more
\* than the timeout before the time of the sweep and leaves every other
\* session as it was; reading or updating a session stamps lastActivityAt
\* with the time of the call and a stamp never goes back, so a session read
\* or updated less than the timeout ago is never removed by a sweep.
C30_SweepRemovesExactlyExpired ==
  /\ [][ClearExpiredSessions =>
          /\ DOMAIN managerSessions'
               = DOMAIN managerSessions \ Expired(managerSessions, now)
          /\ \A u \in DOMAIN managerSessions' :
               managerSessions'[u] = managerSessions[u]
          /\ \A u \in DOMAIN managerSessions :
               now - managerSessions[u].lastActivityAt < sessionTimeoutMs
                 => u \in DOMAIN managerSessions']_vars
  /\ [][\A u \in Users :
          Touches(u) => /\ u \in DOMAIN managerSessions'
                        /\ managerSessions'[u].lastActivityAt = now]_vars
  /\ [][\A u \in DOMAIN managerSessions \cap DOMAIN managerSessions' :
          managerSessions'[u].lastActivityAt
            >= managerSessions[u].lastActivityAt]_vars
  /\ [](\A u \in DOMAIN managerSessions : managerSessions[u].lastActivityAt <= now)

\* a sweep has removed one session and kept the other, whose last activity is
\* exactly the timeout old
C30_OneRemovedOneKept ==
  /\ result = [op |-> "clearExpiredSessions", expiredCount |-> 1]
  /\ DOMAIN managerSessions = {"u2"}
  /\ now - managerSessions["u2"].lastActivityAt = sessionTimeoutMs

-----------------------------------------------------------------------------
(* The sweep of the RateLimiter                                            *)

\* the attempts of an entry that lie inside the window at time t
InWindow(attempts, t) == {i \in 1..Len(attempts) : t - attempts[i] < windowMs}

\* C31: the sweep removes every identity whose recorded attempts are all
\* outside the window and keeps, for every other identity, exactly its
\* in-window attempts in their order; and every isAllowed and getRemaining
\* call returns what it returns on a limiter that got the same calls and was
\* never swept.
C31_SweepChangesNoLaterResult ==
  /\ [][CleanupAtAnyTime =>
          \A id \in DOMAIN userAttempts :
            \A kept \in {InWindow(userAttempts[id], now)} :
              IF kept = {}
              THEN id \notin DOMAIN userAttempts'
              ELSE /\ id \in DOMAIN userAttempts'
                   /\ Len(userAttempts'[id]) = Cardinality(kept)
                   /\ \A i \in 1..Len(userAttempts'[id]) :
                        userAttempts'[id][i]
                          = userAttempts[id][i + Len(userAttempts[id])
                                               - Cardinality(kept)]]_vars
  /\ []((result # Null /\ "unswept" \in DOMAIN result)
          => result.value = result.unswept)
  /\ [](\A id \in PhoneNumbers, t \in now..MaxTime :
          /\ isAllowed(userAttempts, id, t).value = isAllowed(unswept, id, t).value
          /\ getRemaining(userAttempts, id, t) = getRemaining(unswept, id, t))

\* p2 was swept away, the other limiter still holds its old attempts, and
\* getRemaining("p2") returns the full budget on both
C31_SameRemainingAfterSweep ==
  /\ result # Null
  /\ result.op = "getRemaining"
  /\ result.userId = "p2"
  /\ result.value = maxAttempts
  /\ result.unswept = maxAttempts
  /\ "p2" \in DOMAIN unswept
  /\ Len(unswept["p2"]) = maxAttempts
  /\ "p2" \notin DOMAIN userAttempts
  /\ "p1" \in DOMAIN userAttempts

-----------------------------------------------------------------------------
(* The budget over every window                                            *)

\* the admitted calls of an identity whose time lies in [t, t + windowMs)
AdmittedFrom(id, t) ==
  {i \in 1..Len(everAdmitted[id]) :
     t <= everAdmitted[id][i] /\ everAdmitted[id][i] < t + windowMs}

\* C33: whatever isAllowed and getRemaining calls and sweeps have run, at
\* non-decreasing times and with no reset, the admitted isAllowed calls of an
\* identity whose times fall in any half-open interval of length windowMs
\* number at most maxAttempts, and the attempts recorded for an identity
\* hold at most maxAttempts in-window entries.
C33_BudgetHoldsInEveryWindow ==
  \A id \in PhoneNumbers :
    /\ \A t \in 0..MaxTime : Cardinality(AdmittedFrom(id, t)) <= maxAttempts
    /\ id \in DOMAIN userAttempts =>
         Cardinality(InWindow(userAttempts[id], now)) <= maxAttempts

\* p1 has spent the budget of two windows, a sweep has removed p2, and the
\* next call of p1 is refused
C33_RefusedAfterTwoFullWindows ==
  /\ result # Null
  /\ result.op = "isAllowed"
  /\ result.userId = "p1"
  /\ ~result.value
  /\ Len(everAdmitted["p1"]) = 2 * maxAttempts
  /\ "p2" \in DOMAIN unswept
  /\ "p2" \notin DOMAIN userAttempts

-----------------------------------------------------------------------------
(* A submission that completes after its flow was abandoned                *)

\* C34: the reset after a successful submission discards only the flow that
\* was submitted: when the call returns and the identity has meanwhile
\* cancelled and started a new flow (its session is past IDLE and not the
\* one waiting in SELECT_CATEGORY), the session is left as it is.
C34_ResetSparesNewFlow ==
  [][\A i \in 1..Len(pending) :
       (/\ CreateTransactionReturns(i, TRUE)
        /\ StateOf(sessions, pending[i].userId)
             \in {"SELECT_TYPE", "SELECT_ACCOUNT", "ENTER_DETAILS"})
         => sessions'[pending[i].userId] = sessions[pending[i].userId]]_vars

-----------------------------------------------------------------------------
(* Every message is answered                                               *)

\* C32: in every state and for every message, handleMessage either returns
\* one text at once or awaits one createTransaction call, never both and
\* never neither; a call that returns or fails produces one text for its
\* sender, and with calls that return within their timeout every awaited
\* message is answered; no state is a dead end, since "cancel" takes the
\* session to IDLE from every reachable state.
C32_EveryMessageAnswered ==
  /\ [](\A u \in Users, m \in Messages, apiOk \in BOOLEAN :
          \A r \in {handleMessage(sessions, u, m, now, categories, accounts, apiOk)} :
            (r.reply = Null) # (r.call = Null))
  /\ [](\A u \in Users :
          StateOf(handleMessage(sessions, u, mCancel, now, categories, accounts,
                                TRUE).sessions, u) = "IDLE")
  /\ [][\A u \in Users :
          Cardinality(InFlight(u))' < Cardinality(InFlight(u)) =>
            /\ Cardinality(InFlight(u))' = Cardinality(InFlight(u)) - 1
            /\ reply' # Null
            /\ reply'.to = u
            /\ reply'.kind \in {"confirmation", "submitFailed"}]_vars
  /\ \A u \in Users :
       (InFlight(u) # {}) ~>
         (InFlight(u) = {} /\ reply # Null /\ reply.to = u
            /\ reply.kind \in {"confirmation", "submitFailed"})

\* the submission of u2 has failed and u2 is told so, while its session
\* still waits for a category and u1 is in the middle of a flow
C32_FailureReported ==
  /\ reply # Null
  /\ reply.to = "u2"
  /\ reply.kind = "submitFailed"
  /\ pending = <<>>
  /\ StateOf(sessions, "u2") = "SELECT_CATEGORY"
  /\ StateOf(sessions, "u1") = "ENTER_DETAILS"

====
